---- MODULE Spec2Model ----
(***************************************************************************)
(* One symbol's trading engine (SymbolEngine), the exchange client         *)
(* (UMBinanceTrader, main and "fixed" variants), the order ledger, the     *)
(* direction-conflict guard and the API admission controller.              *)
(*                                                                         *)
(* Time is in seconds.  Quantities are whole multiples of the symbol's     *)
(* quantity step (a step of one coin), prices are not modelled: every      *)
(* decision that depends on a price or on a score is an input of the       *)
(* action that takes it.                                                   *)
(***************************************************************************)
EXTENDS Integers, Sequences, FiniteSets, TLC

\* ------------------------------------------------------------------ bounds
MaxTime == 40          \* the clock runs from Epoch to Epoch + MaxTime
TickStep == 20         \* seconds between two observations of the clock
MaxId == 2             \* exchange order ids 1..MaxId
MaxQty == 2            \* entry quantities 1..MaxQty
MaxOrders == 2         \* ledger orders kept per side
RateCeiling == 1       \* weight the rolling window admits
Epoch == 2000          \* wall clock at construction (any value > 1800)

MaxScore == 50         \* entry scores 0..MaxScore, in tenths of a point
PosScale == 10         \* the price's place in the 20-bar range: 0..PosScale

MaxBalanceSteps == 8   \* total balance 25, 50, .. 25 * MaxBalanceSteps USDT
MaxAmountSteps == 6    \* requested and used amounts 0, 5, .. 5 * MaxAmountSteps USDT
MaxPrice == 4          \* prices 1..MaxPrice USDT per coin
MaxHeld == 3           \* coins the ledger holds when the funds are checked
MaxCalls == 4          \* the caching traders are followed for this many getter calls
MaxTickets == 3        \* admission requests followed in the controller's queue
QueueTick == 2         \* seconds between two looks at the waiting tickets
MaxWait == 6           \* the queue is followed for this many seconds
MaxData == 2           \* values a fetch can return: 1..MaxData (0 too for a position)
StartupStep == 60      \* seconds between two observations of the clock during startup
StartupHorizon == 180  \* the startup is followed for this many seconds

\* ------------------------------------------------------- program constants
SyncInterval == 30             \* _sync_positions_optimized: sync_interval
SyncBeforeEntryAge == 1800     \* _should_sync_before_entry
HeartbeatTimeout == 25         \* _save_state_and_heartbeat: elapsed > 25
PendingTimeout == 30           \* _check_pending_orders_timeout
DuplicateWindow == 30          \* _has_duplicate_pending_order
StartupSeconds == 120          \* run_kline_logic: startup_duration > 120

\* _check_cooldown_and_score: entry scores, in tenths of a point
ShortHighScore == 45           \* high_score, short
ShortBreakoutScore == 40       \* technical_breakout, short
ShortMediumScore == 42         \* medium_score_with_trend, short
LongHighScore == 40            \* high_score, long
LongBreakoutScore == 35        \* technical_breakout, long
LongMediumScore == 38          \* medium_score_with_trend, long
ShortMinThreshold == 40        \* direction_threshold, short
LongMinThreshold == 35         \* direction_threshold, long
ZoneLow == 3                   \* position_advantage: pos_pct < 0.3, in tenths
ZoneHigh == 7                  \* position_advantage: pos_pct > 0.7, in tenths

\* the funds limits, in percent of the total balance, and MIN_NOTIONAL in USDT
MaxTotalPositionPercent == 50  \* _check_funds_for_entry: MAX_TOTAL_POSITION_PERCENT
MaxSingleTradeRatio == 10      \* _calculate_entry_quantity: MAX_SINGLE_TRADE_RATIO
MaxSymbolRatio == 15           \* _calculate_entry_quantity: MAX_SYMBOL_RATIO
MinNotional == 15              \* _calculate_entry_quantity: MIN_NOTIONAL
PollCount == 3            \* _execute_smart_limit_entry: status checks at 5, 10 and 20 s
LimitWaitTimeout == 5     \* seconds a denied limit order waits for a slot
CancelWaitTimeout == 3    \* seconds a denied cancel waits for a slot
MarketWaitTimeout == 10   \* seconds a denied market order waits for a slot

Sides == {"LONG", "SHORT"}
SideOrder == <<"LONG", "SHORT">>
Opposite(side) == IF side = "LONG" THEN "SHORT" ELSE "LONG"
Abs(x) == IF x < 0 THEN -x ELSE x
None == 0                      \* Python None / a missing order id

\* "RESTORED-" + side, the order id sync_position_from_binance writes
RestoredId(side) == IF side = "LONG" THEN -1 ELSE -2

\* --------------------------------------------------------------- the ledger
\* An order of the ledger (the dict add_order stores, with the extra_fields
\* the engine reads back).
MkOrder(id, side, qty, submit_time, pending) ==
    [id |-> id, side |-> side, qty |-> qty, submit_time |-> submit_time,
     entry_pending |-> pending, closed |-> FALSE,
     timeout_processing |-> FALSE, exit_status |-> ""]

EmptyLedger == [orders |-> [s \in Sides |-> <<>>], total |-> [s \in Sides |-> 0]]

reset(L) == EmptyLedger

HasOrderId(L, side, id) == \E i \in 1..Len(L.orders[side]) : L.orders[side][i].id = id

\* add_order appending whether or not the order id is already recorded
add_order_not_idempotent(L, side, qty, id, submit_time, pending) ==
    [orders |-> [L.orders EXCEPT ![side] = Append(@, MkOrder(id, side, qty, submit_time, pending))],
     total  |-> [L.total EXCEPT ![side] = @ + qty]]

add_order(L, side, qty, id, submit_time, pending) ==
    IF HasOrderId(L, side, id) THEN L
    ELSE [orders |-> [L.orders EXCEPT ![side] = Append(@, MkOrder(id, side, qty, submit_time, pending))],
          total  |-> [L.total EXCEPT ![side] = @ + qty]]

close_orders(L, side) ==
    [orders |-> [L.orders EXCEPT ![side] = <<>>],
     total  |-> [L.total EXCEPT ![side] = 0]]

get_total_quantity(L, side) == L.total[side]

get_current_position(L, side) == L.total[side]

IsOpen(o) == ~o.closed

get_active_orders(L, side) == SelectSeq(L.orders[side], IsOpen)

\* the sum of qty over the non-closed orders of a side
RECURSIVE SumOpenQty(_)
SumOpenQty(seq) ==
    IF seq = <<>> THEN 0
    ELSE (IF Head(seq).closed THEN 0 ELSE Head(seq).qty) + SumOpenQty(Tail(seq))

OpenQty(L, side) == SumOpenQty(L.orders[side])

\* ------------------------------------------------- direction conflict guard
NoReservations == [s \in Sides |-> "none"]

check_direction_conflict(rv, L, side) ==
    LET allowed == rv[Opposite(side)] = "none" /\ get_total_quantity(L, Opposite(side)) = 0
    IN [allowed |-> allowed,
        resv |-> IF allowed /\ rv[side] = "none" THEN [rv EXCEPT ![side] = "reserved"] ELSE rv]

confirm_entry_success(rv, side) == [rv EXCEPT ![side] = "confirmed"]

cancel_entry_reservation(rv, side) ==
    IF rv[side] = "reserved" THEN [rv EXCEPT ![side] = "none"] ELSE rv

clear_position(rv, side) ==
    IF rv[side] = "confirmed" THEN [rv EXCEPT ![side] = "none"] ELSE rv

\* ---------------------------------------------------- admission controller
Weight == 1

can_make_request(used) == used + Weight <= RateCeiling

record_request(used) == IF used + Weight <= RateCeiling THEN used + Weight ELSE RateCeiling

\* wait_for_request_slot: the window slides during the wait (slot granted)
\* or the timeout elapses
wait_for_request_slot(used, slid) ==
    [granted |-> slid, used |-> IF slid THEN 0 ELSE used]

\* the admission controller's queue.  A ticket is a waiting request: its
\* operation, priority, enqueue order and the deadline after which the caller
\* gives up.
Rank(p) == CASE p = "CRITICAL" -> 3 [] p = "HIGH" -> 2 [] p = "MEDIUM" -> 1 [] OTHER -> 0

\* the order in which waiters are released: by priority, then by enqueue order
Before(a, b) ==
    \/ Rank(a.priority) > Rank(b.priority)
    \/ Rank(a.priority) = Rank(b.priority) /\ a.enq < b.enq

\* a queue released in enqueue order alone
next_waiter_fifo(Q) == CHOOSE w \in Q : \A x \in Q : w.enq <= x.enq

next_waiter(Q) == CHOOSE w \in Q : \A x \in Q \ {w} : Before(w, x)

\* waiters are released as long as the window has capacity
RECURSIVE release_waiters(_, _)
release_waiters(Q, used) ==
    IF Q = {} \/ ~can_make_request(used)
    THEN [queue |-> Q, used |-> used, granted |-> {}]
    ELSE LET w == next_waiter(Q)
             r == release_waiters(Q \ {w}, record_request(used))
         IN [r EXCEPT !.granted = @ \cup {w}]

NoAdmission == [queue |-> {}, seq |-> 0, granted |-> {}, last |-> "none"]

\* ------------------------------------------------------------- the exchange
NoExchangeOrders == [i \in 1..MaxId |-> [side |-> "LONG", qty |-> 0, st |-> "NONE", kind |-> "NONE"]]

\* what positionRisk reports for the symbol: positionAmt is signed by side
PositionAmt(pos, side) == IF side = "LONG" THEN pos[side] ELSE 0 - pos[side]

\* the response of positionRisk: an entry of another symbol, then the two
\* hedge-mode entries of this symbol in the order `first` gives; entry
\* number `bad` (0: none) lacks positionAmt
PositionReport(pos, first, bad) ==
    LET e(side, n) == [symbol |-> "this", positionSide |-> side,
                       positionAmt |-> PositionAmt(pos, side), malformed |-> (bad = n)]
    IN << [symbol |-> "other", positionSide |-> "LONG", positionAmt |-> 1, malformed |-> (bad = 1)],
          e(first, 2), e(Opposite(first), 3) >>

SyncKinds == {"list", "fetch_fail", "error_obj"}

\* UMBinanceTrader.sync_position_from_binance, the loop over the response
\* after tracker.reset()
RECURSIVE IngestMain(_, _)
IngestMain(L, report) ==
    IF report = <<>> THEN [tracker |-> L, raised |-> FALSE]
    ELSE LET p == Head(report) IN
         IF p.symbol # "this" THEN IngestMain(L, Tail(report))
         ELSE IF p.positionSide \notin Sides THEN IngestMain(L, Tail(report))
         ELSE IF p.malformed THEN [tracker |-> L, raised |-> TRUE]
         ELSE IF p.positionAmt = 0 THEN IngestMain(L, Tail(report))
         ELSE IngestMain(add_order(L, p.positionSide, Abs(p.positionAmt),
                                   RestoredId(p.positionSide), 0, FALSE),
                         Tail(report))

sync_position_main(L, kind, report) ==
    IF kind = "fetch_fail" THEN [tracker |-> L, result |-> "fetch_fail"]
    ELSE IF kind = "error_obj" THEN [tracker |-> reset(L), result |-> "error_obj"]
    ELSE LET r == IngestMain(reset(L), report)
         IN [tracker |-> r.tracker, result |-> IF r.raised THEN "malformed" ELSE "ok"]

\* UMBinanceTrader_fixed.sync_position_from_binance, the loop over the response
RECURSIVE IngestFixed(_, _)
IngestFixed(L, report) ==
    IF report = <<>> THEN [tracker |-> reset(L), raised |-> FALSE]
    ELSE LET p == Head(report) IN
         IF p.symbol # "this" THEN IngestFixed(L, Tail(report))
         ELSE IF p.positionSide \notin Sides THEN IngestFixed(L, Tail(report))
         ELSE IF p.malformed THEN [tracker |-> L, raised |-> TRUE]
         ELSE IF p.positionAmt = 0 THEN IngestFixed(L, Tail(report))
         ELSE IF (IF p.positionAmt > 0 THEN "LONG" ELSE "SHORT") # p.positionSide
              THEN IngestFixed(L, Tail(report))
         ELSE [tracker |-> add_order(reset(L), p.positionSide, Abs(p.positionAmt),
                                     RestoredId(p.positionSide), 0, FALSE),
               raised |-> FALSE]

sync_position_fixed(L, kind, report) ==
    IF kind = "fetch_fail" THEN [tracker |-> L, result |-> "fetch_fail"]
    ELSE IF kind = "error_obj" THEN [tracker |-> L, result |-> "error_obj"]
    ELSE LET r == IngestFixed(L, report)
         IN [tracker |-> r.tracker, result |-> IF r.raised THEN "malformed" ELSE "ok"]

sync_position_from_binance(variant, L, kind, report) ==
    IF variant = "main" THEN sync_position_main(L, kind, report)
    ELSE sync_position_fixed(L, kind, report)

\* _sync_positions_optimized, the clean-up after the sync
RECURSIVE CleanSides(_, _, _)
CleanSides(L, rv, sides) ==
    IF sides = <<>> THEN [tracker |-> L, resv |-> rv]
    ELSE LET s == Head(sides) IN
         IF get_current_position(L, s) = 0
         THEN CleanSides(close_orders(L, s), clear_position(rv, s), Tail(sides))
         ELSE CleanSides(L, rv, Tail(sides))

\* ------------------------------------------------ the trader's order calls
\* the part of the state an exchange call can change
MkWorld(ex, pos, nid, used, log) ==
    [exOrders |-> ex, exPos |-> pos, next_id |-> nid, rl_used |-> used, api_log |-> log]

LogEntry(op, via, asked, can, called, ok, recorded, flag, ret) ==
    [op |-> op, via |-> via, asked |-> asked, can |-> can, called |-> called,
     ok |-> ok, recorded |-> recorded, flag |-> flag, ret |-> ret,
     timeout |-> 0, slot |-> "-"]

\* a request that was denied admission waited for a slot with the given
\* timeout (seconds); the slot was granted or the wait timed out
Waited(e, can, granted, timeout) ==
    IF can THEN e
    ELSE [e EXCEPT !.timeout = timeout, !.slot = IF granted THEN "granted" ELSE "timeout"]

LogCall(W, e) == [W EXCEPT !.api_log = @ \cup {e}]

BoolStr(b) == IF b THEN "True" ELSE "False"
IdStr(id) == IF id = None THEN "None" ELSE "id"

\* UMBinanceTrader.place_limit_order: the order id, or None when the exchange
\* refuses or the request fails
place_limit_order(W, side, qty, accept, t) ==
    IF accept /\ W.next_id <= MaxId
    THEN [w |-> [W EXCEPT !.exOrders[W.next_id] =
                     [side |-> side, qty |-> qty, st |-> "NEW", kind |-> "LIMIT"],
                  !.next_id = @ + 1],
          ret |-> W.next_id]
    ELSE [w |-> W, ret |-> None]

\* UMBinanceTrader.place_market_order: a market order fills at once
place_market_order(W, side, qty, accept, t) ==
    IF accept /\ W.next_id <= MaxId
    THEN [w |-> [W EXCEPT !.exOrders[W.next_id] =
                     [side |-> side, qty |-> qty, st |-> "FILLED", kind |-> "MARKET"],
                  !.exPos[side] = @ + qty,
                  !.next_id = @ + 1],
          ret |-> W.next_id]
    ELSE [w |-> W, ret |-> None]

\* UMBinanceTrader.cancel_order: cancels a resting order; the exchange's
\* refusal is caught inside; the method has no return statement
cancel_order(W, id, accept) ==
    LET done == accept /\ id \in 1..MaxId /\ W.exOrders[id].st = "NEW"
    IN [w |-> IF done THEN [W EXCEPT !.exOrders[id].st = "CANCELED"] ELSE W,
        done |-> done,
        ret |-> "None"]

\* UMBinanceTrader.get_order_status: the status, or None when the query fails
get_order_status(W, id, answers) ==
    IF answers /\ id \in 1..MaxId /\ W.exOrders[id].st # "NONE"
    THEN W.exOrders[id].st ELSE "None"

\* ------------------------------------------------- rate-limited helpers
\* _place_limit_order_with_rate_limit sending the order although the wait
\* for a slot timed out
place_limit_order_sends_after_timeout(W, side, qty, slid, accept, t) ==
    LET can == can_make_request(W.rl_used)
        wt == wait_for_request_slot(W.rl_used, slid)
        W1 == IF ~can /\ wt.granted THEN [W EXCEPT !.rl_used = wt.used] ELSE W
        r == place_limit_order(W1, side, qty, accept, t)
        W2 == [r.w EXCEPT !.rl_used = record_request(@)]
    IN [w |-> LogCall(W2, Waited(LogEntry("limit", "helper", TRUE, can, TRUE, r.ret # None, 1,
                                          BoolStr(r.ret # None), IdStr(r.ret)),
                                 can, wt.granted, LimitWaitTimeout)),
        ret |-> r.ret]

\* _place_limit_order_with_rate_limit
place_limit_order_with_rate_limit(W, side, qty, slid, accept, t) ==
    LET can == can_make_request(W.rl_used)
        wt == wait_for_request_slot(W.rl_used, slid)
    IN IF ~can /\ ~wt.granted
       THEN [w |-> LogCall(W, Waited(LogEntry("limit", "helper", TRUE, FALSE, FALSE, FALSE, 0,
                                              "-", "None"),
                                     can, FALSE, LimitWaitTimeout)),
             ret |-> None]
       ELSE LET W1 == IF can THEN W ELSE [W EXCEPT !.rl_used = wt.used]
                r == place_limit_order(W1, side, qty, accept, t)
                W2 == [r.w EXCEPT !.rl_used = record_request(@)]
            IN [w |-> LogCall(W2, Waited(LogEntry("limit", "helper", TRUE, can, TRUE,
                                                  r.ret # None, 1, BoolStr(r.ret # None),
                                                  IdStr(r.ret)),
                                         can, TRUE, LimitWaitTimeout)),
                ret |-> r.ret]

\* _check_order_status_with_rate_limit
check_order_status_with_rate_limit(W, id, answers) ==
    IF ~can_make_request(W.rl_used)
    THEN [w |-> LogCall(W, LogEntry("status", "helper", TRUE, FALSE, FALSE, FALSE, 0, "-", "UNKNOWN")),
          ret |-> "UNKNOWN"]
    ELSE LET st == get_order_status(W, id, answers)
             W2 == [W EXCEPT !.rl_used = record_request(@)]
         IN [w |-> LogCall(W2, LogEntry("status", "helper", TRUE, TRUE, TRUE, st # "None", 1, "True", st)),
             ret |-> st]

\* _cancel_order_with_rate_limit
cancel_order_with_rate_limit(W, id, slid, accept) ==
    LET can == can_make_request(W.rl_used)
        wt == wait_for_request_slot(W.rl_used, slid)
    IN IF ~can /\ ~wt.granted
       THEN [w |-> LogCall(W, Waited(LogEntry("cancel", "helper", TRUE, FALSE, FALSE, FALSE, 0,
                                              "-", "False"),
                                     can, FALSE, CancelWaitTimeout)),
             ret |-> "False"]
       ELSE LET W1 == IF can THEN W ELSE [W EXCEPT !.rl_used = wt.used]
                r == cancel_order(W1, id, accept)
                W2 == [r.w EXCEPT !.rl_used = record_request(@)]
            IN [w |-> LogCall(W2, Waited(LogEntry("cancel", "helper", TRUE, can, TRUE, r.done, 1,
                                                  r.ret, r.ret),
                                         can, TRUE, CancelWaitTimeout)),
                ret |-> r.ret]

\* get_position_amt_unified: the ledger's quantity of the side, or 0 when
\* reading the ledger raises
get_position_amt_unified(L, side, reads) ==
    IF reads THEN get_total_quantity(L, side) ELSE 0

\* _place_market_order_with_rate_limit without the emergency bypass: a request
\* still denied after the wait is dropped
place_market_order_no_bypass(W, L, reads, side, qty, slid, accept, t) ==
    IF get_position_amt_unified(L, side, reads) > 0
    THEN [w |-> W, ret |-> None]
    ELSE LET can == can_make_request(W.rl_used)
             wt == wait_for_request_slot(W.rl_used, slid)
         IN IF ~can /\ ~wt.granted
            THEN [w |-> LogCall(W, Waited(LogEntry("market", "helper", TRUE, FALSE, FALSE, FALSE,
                                                   0, "-", "None"),
                                          can, FALSE, MarketWaitTimeout)),
                  ret |-> None]
            ELSE LET W1 == IF can THEN W ELSE [W EXCEPT !.rl_used = wt.used]
                     r == place_market_order(W1, side, qty, accept, t)
                     W2 == [r.w EXCEPT !.rl_used = record_request(@)]
                 IN [w |-> LogCall(W2, Waited(LogEntry("market", "helper", TRUE, can, TRUE,
                                                       r.ret # None, 1, BoolStr(r.ret # None),
                                                       IdStr(r.ret)),
                                              can, TRUE, MarketWaitTimeout)),
                     ret |-> r.ret]

\* _place_market_order_with_rate_limit
place_market_order_with_rate_limit(W, L, reads, side, qty, slid, accept, t) ==
    IF get_position_amt_unified(L, side, reads) > 0
    THEN [w |-> W, ret |-> None]
    ELSE LET can == can_make_request(W.rl_used)
             wt == wait_for_request_slot(W.rl_used, slid)
         IN IF ~can /\ ~wt.granted
            THEN LET r == place_market_order(W, side, qty, accept, t)
                 IN [w |-> LogCall(r.w, Waited(LogEntry("market", "bypass", TRUE, FALSE, TRUE,
                                                        r.ret # None, 0, "-", IdStr(r.ret)),
                                               can, FALSE, MarketWaitTimeout)),
                     ret |-> r.ret]
            ELSE LET W1 == IF can THEN W ELSE [W EXCEPT !.rl_used = wt.used]
                     r == place_market_order(W1, side, qty, accept, t)
                     W2 == [r.w EXCEPT !.rl_used = record_request(@)]
                 IN [w |-> LogCall(W2, Waited(LogEntry("market", "helper", TRUE, can, TRUE,
                                                       r.ret # None, 1, BoolStr(r.ret # None),
                                                       IdStr(r.ret)),
                                              can, TRUE, MarketWaitTimeout)),
                     ret |-> r.ret]

\* ------------------------------------------------- smart limit entry
\* _execute_market_entry: the trader is called directly; an exception gives
\* None
execute_market_entry(W, side, qty, accept, t) ==
    LET r == place_market_order(W, side, qty, accept, t)
    IN [w |-> LogCall(r.w, LogEntry("market", "direct", FALSE, FALSE, TRUE, r.ret # None, 0,
                                    "-", IdStr(r.ret))),
        ret |-> r.ret, stage |-> "market_direct"]

\* what the exchange does with the resting limit order while
\* _execute_smart_limit_entry sleeps: before status check `at` (or, with
\* at = PollCount + 1, after the last check) the order takes status st
OrderFates ==
    [at : 1..(PollCount + 1), st : {"NEW", "FILLED", "CANCELED", "EXPIRED", "REJECTED"}]

\* the admission window while the function sleeps between two calls: the
\* requests counted in it age out of the window, or not
window_after_sleep(W, aged) == IF aged THEN [W EXCEPT !.rl_used = 0] ELSE W

exchange_settles(W, id, fate, k) ==
    IF fate.at = k /\ W.exOrders[id].st = "NEW"
    THEN [W EXCEPT !.exOrders[id].st = fate.st,
                   !.exPos[W.exOrders[id].side] =
                        IF fate.st = "FILLED" THEN @ + W.exOrders[id].qty ELSE @]
    ELSE W

\* the status loop of _execute_smart_limit_entry (checks at 5, 10 and 20 s)
RECURSIVE poll_order_status(_, _, _, _, _, _)
poll_order_status(W, id, fate, answers, aged, k) ==
    IF k > PollCount THEN [w |-> W, outcome |-> "unfilled"]
    ELSE LET W1 == window_after_sleep(exchange_settles(W, id, fate, k), aged)
             c == check_order_status_with_rate_limit(W1, id, answers)
         IN IF c.ret = "FILLED" THEN [w |-> c.w, outcome |-> "filled"]
            ELSE IF c.ret \in {"CANCELED", "EXPIRED", "REJECTED"}
                 THEN [w |-> c.w, outcome |-> "dead"]
            ELSE poll_order_status(c.w, id, fate, answers, aged, k + 1)

\* _execute_smart_limit_entry
execute_smart_limit_entry(W, L, reads, side, qty, fate, answers, aged, slid, accept_l, accept_c, accept_m, t) ==
    LET p == place_limit_order_with_rate_limit(W, side, qty, slid, accept_l, t)
    IN IF p.ret = None
       THEN execute_market_entry(p.w, side, qty, accept_m, t)
       ELSE LET s == poll_order_status(p.w, p.ret, fate, answers, aged, 1)
            IN IF s.outcome = "filled"
               THEN [w |-> s.w, ret |-> p.ret, stage |-> "limit_filled"]
               ELSE LET W1 == exchange_settles(s.w, p.ret, fate, PollCount + 1)
                        c == cancel_order_with_rate_limit(W1, p.ret, slid, accept_c)
                        m == place_market_order_with_rate_limit(c.w, L, reads, side, qty, slid,
                                                                accept_m, t)
                    IN IF m.ret # None
                       THEN [w |-> m.w, ret |-> m.ret, stage |-> "market_" \o s.outcome]
                       ELSE [w |-> m.w, ret |-> p.ret, stage |-> "original_" \o s.outcome]

\* ------------------------------------------- the two timeout mechanisms
\* Both _check_pending_orders_timeout and the loop of _save_state_and_heartbeat
\* run their handling of one order inside try/except.  An exception raised by
\* a call of the handling ends it there: "cancel" as the cancel helper is
\* called, "market" after the market helper has acted.
TimeoutMechanisms == {"pending", "heartbeat"}

\* is the order due for the handling of the mechanism
timeout_due(mech, L, o, t) ==
    IF mech = "pending"
    THEN /\ o.entry_pending
         /\ ~o.closed
         /\ ~o.timeout_processing
         /\ t - o.submit_time > PendingTimeout
    ELSE /\ \E s \in Sides : \E j \in 1..Len(get_active_orders(L, s)) :
                get_active_orders(L, s)[j].entry_pending
         /\ o.submit_time # 0
         /\ ~o.closed
         /\ ~o.timeout_processing
         /\ t - o.submit_time > HeartbeatTimeout
         /\ o.id # None

\* the handling of one due order forgetting the mark when it is interrupted
escalate_on_timeout_unmarks(mech, L, W, side, i, reads, slid_c, accept_c, slid_m, accept_m, interrupt, t) ==
    LET o == L.orders[side][i]
        c == IF o.id # None THEN cancel_order_with_rate_limit(W, o.id, slid_c, accept_c)
             ELSE [w |-> W, ret |-> "None"]
        m == IF o.qty > 0 /\ (mech = "pending" \/ o.entry_pending)
             THEN place_market_order_with_rate_limit(c.w, L, reads, side, o.qty, slid_m,
                                                     accept_m, t)
             ELSE [w |-> c.w, ret |-> None]
        done == [o EXCEPT !.timeout_processing = TRUE,
                          !.id = IF m.ret # None THEN m.ret ELSE o.id,
                          !.entry_pending = IF m.ret # None THEN FALSE ELSE o.entry_pending,
                          !.closed = TRUE,
                          !.exit_status = IF mech = "heartbeat" THEN "CONVERTED_TO_MARKET" ELSE @]
    IN IF interrupt = "cancel" THEN [tracker |-> L, w |-> W]
       ELSE IF interrupt = "market" THEN [tracker |-> L, w |-> m.w]
       ELSE [tracker |-> [L EXCEPT !.orders[side][i] = done], w |-> m.w]

\* the handling of one due order: the order is marked timeout_processing
\* first, then the cancel, the market order and the update of the ledger
escalate_on_timeout(mech, L, W, side, i, reads, slid_c, accept_c, slid_m, accept_m, interrupt, t) ==
    LET o == L.orders[side][i]
        marked == [L EXCEPT !.orders[side][i].timeout_processing = TRUE]
        c == IF o.id # None THEN cancel_order_with_rate_limit(W, o.id, slid_c, accept_c)
             ELSE [w |-> W, ret |-> "None"]
        m == IF o.qty > 0 /\ (mech = "pending" \/ o.entry_pending)
             THEN place_market_order_with_rate_limit(c.w, L, reads, side, o.qty, slid_m,
                                                     accept_m, t)
             ELSE [w |-> c.w, ret |-> None]
        done == [o EXCEPT !.timeout_processing = TRUE,
                          !.id = IF m.ret # None THEN m.ret ELSE o.id,
                          !.entry_pending = IF m.ret # None THEN FALSE ELSE o.entry_pending,
                          !.closed = TRUE,
                          !.exit_status = IF mech = "heartbeat" THEN "CONVERTED_TO_MARKET" ELSE @]
    IN IF interrupt = "cancel" THEN [tracker |-> marked, w |-> W]
       ELSE IF interrupt = "market" THEN [tracker |-> marked, w |-> m.w]
       ELSE [tracker |-> [L EXCEPT !.orders[side][i] = done], w |-> m.w]

\* ----------------------------------------------------------- guard queries
CooldownEvals == {"clear", "active", "error"}

\* is_in_loss_cooldown answering "not in cooldown" when the manager raises
is_in_loss_cooldown_fail_open(eval) == eval = "active"

\* SymbolEngine.is_in_loss_cooldown: the unified manager answers, or raises
is_in_loss_cooldown(eval) ==
    IF eval = "error" THEN TRUE ELSE eval = "active"

\* how the global risk manager's should_block_direction behaves, and what the
\* shared exception handler (handle_mutual_exclusion_exception) does when asked
RiskEvals == {"unavailable", "clear", "block", "error"}
HandlerOutcomes == {"allow", "deny", "raises"}

\* _check_global_directional_risk
check_global_directional_risk(mgr, handler) ==
    IF mgr = "unavailable" THEN TRUE
    ELSE IF mgr = "block" THEN FALSE
    ELSE IF mgr = "clear" THEN TRUE
    ELSE IF handler = "raises" THEN TRUE
    ELSE handler = "allow"

\* tracker.update_floating_pnl: the floating P&L of an order is a function of
\* its entry price, the current price and the side (its sign is what the
\* loss protection reads)
floating_pnl(side, entry, price) ==
    IF side = "LONG" THEN price - entry ELSE entry - price

\* what handle_mutual_exclusion_exception decides for an error inside the
\* loss protection check: it denies, or raises itself
LossHandlerOutcomes == {"deny", "raises"}

\* _enhanced_loss_protection_check allowing the entry whatever the floating
\* P&L of the side's orders
enhanced_loss_protection_check_ignores_pnl(L, side, price, entry_price, fails, handler) ==
    IF fails THEN (IF handler = "raises" THEN FALSE ELSE handler = "allow")
    ELSE TRUE

\* _enhanced_loss_protection_check; entry_price gives the entry price of the
\* order with a given id, fails says that reading the ledger raises
enhanced_loss_protection_check(L, side, price, entry_price, fails, handler) ==
    LET active_orders == get_active_orders(L, side)
    IN IF fails THEN (IF handler = "raises" THEN FALSE ELSE handler = "allow")
       ELSE IF Len(active_orders) = 0 THEN TRUE
       ELSE ~(\E i \in 1..Len(active_orders) :
                 floating_pnl(side, entry_price[active_orders[i].id], price) < 0)

\* what _calculate_dynamic_threshold returns, in tenths: its fallback, or a
\* threshold of the market analyzer
DynamicThresholds == {30, 45}

\* _check_cooldown_and_score: position_advantage, for pos_pct = pos / PosScale
position_advantage(direction, pos) ==
    \/ direction = "long" /\ 10 * pos < ZoneLow * PosScale
    \/ direction = "short" /\ 10 * pos > ZoneHigh * PosScale

\* _check_cooldown_and_score: an override granted to any positive score
entry_override_any_score(direction, score, pos) == score > 0

\* _check_cooldown_and_score: override
entry_override(direction, score, pos) ==
    LET adv == position_advantage(direction, pos)
        high_score == IF direction = "short" THEN score >= ShortHighScore
                                             ELSE score >= LongHighScore
        technical_breakout == IF direction = "short" THEN score >= ShortBreakoutScore /\ adv
                                                     ELSE score >= LongBreakoutScore /\ adv
        medium_score_with_trend == IF direction = "short" THEN score >= ShortMediumScore
                                                          ELSE score >= LongMediumScore
    IN high_score \/ adv \/ technical_breakout \/ medium_score_with_trend

\* UnifiedCooldownManager.can_open_position, for a manager that answers:
\* during an active cooldown only an asserted override opens
can_open_position(unified, override) == unified = "clear" \/ override

\* _check_cooldown_and_score: unified is what the cooldown manager finds,
\* legacy what cooldown_guard.can_open answers, emergency the configured
\* EMERGENCY_PROTECTION_MODE, dyn the dynamic threshold
check_cooldown_and_score(direction, score, pos, unified, legacy, emergency, dyn) ==
    LET override == entry_override(direction, score, pos)
        floor == IF direction = "short" THEN ShortMinThreshold ELSE LongMinThreshold
        direction_threshold == IF dyn > floor THEN dyn ELSE floor
        answer(b) == [raised |-> FALSE, answer |-> b]
    IN IF unified = "error" THEN [raised |-> TRUE, answer |-> FALSE]
       ELSE IF ~can_open_position(unified, override) THEN answer(FALSE)
       ELSE IF ~legacy THEN answer(FALSE)
       ELSE IF emergency THEN answer(FALSE)
       ELSE IF score < direction_threshold /\ ~override THEN answer(FALSE)
       ELSE answer(TRUE)

\* the balances, amounts and prices the sizing is evaluated for, in USDT
Balances == {25 * k : k \in 1..MaxBalanceSteps}
Amounts == {5 * j : j \in 0..MaxAmountSteps}
Prices == 1..MaxPrice

\* _check_funds_for_entry: held is the ledger's quantity over both sides;
\* when reading the balance raises, the shared exception handler decides
check_funds_for_entry(held, price, balance, balance_reads, handler) ==
    IF balance_reads
    THEN ~(100 * held * price >= balance * MaxTotalPositionPercent)
    ELSE handler = "allow"

\* core.risk_control.get_trade_quantity for a quantity step of one coin: the
\* coins the amount (in hundredths of a USDT) buys, rounded down
get_trade_quantity(usdt100, price) == usdt100 \div (100 * price)

NoQuantity == [qty |-> 0, notional |-> 0, none |-> TRUE]

\* _calculate_entry_quantity: usdt is the trade amount after the position
\* multiplier, symbol_used the symbol's notional in the ledger
calculate_entry_quantity(usdt, balance, symbol_used, price) ==
    LET capped == 100 * usdt > balance * MaxSingleTradeRatio
        usdt100 == IF capped THEN balance * MaxSingleTradeRatio ELSE 100 * usdt
        qty1 == get_trade_quantity(usdt100, price)
        small == qty1 * price < MinNotional
        qty == IF small THEN get_trade_quantity(100 * MinNotional, price) ELSE qty1
        notional == qty * price
    IN IF usdt <= 0 THEN NoQuantity
       ELSE IF 100 * symbol_used + usdt100 > balance * MaxSymbolRatio THEN NoQuantity
       ELSE [qty |-> qty, notional |-> notional, none |-> FALSE]

\* _has_duplicate_pending_order with a recency window of 10 seconds
has_duplicate_short_window(L, side, qty, t) ==
    \E i \in 1..Len(get_active_orders(L, side)) :
        LET order == get_active_orders(L, side)[i] IN
        /\ ~order.closed
        /\ ~(t - order.submit_time > 10)
        /\ Abs(order.qty - qty) * 1000 < 1

\* _has_duplicate_pending_order
has_duplicate_pending_order(L, side, qty, t) ==
    \E i \in 1..Len(get_active_orders(L, side)) :
        LET order == get_active_orders(L, side)[i] IN
        /\ ~order.closed
        /\ ~(t - order.submit_time > DuplicateWindow)
        /\ Abs(order.qty - qty) * 1000 < 1

\* ------------------------------------------------------ the caching traders
\* UMBinanceTrader_ultra_conservative and UMBinanceTrader_safe_conservative
\* answer their read operations from a cache, and fetch from the exchange
\* only when the entry is stale and the minimum interval since the last
\* fetch of that type has passed.
CacheTypes == {"position", "balance", "bid_ask", "order_status"}
CacheKeys == {"k1", "k2"}          \* two keys of one type (two sides, symbols, orders)

\* values: quantities, balances and prices are numbers; None and the pair
\* (None, None) are values of their own
NoData == -1
NoBidAsk == -2
NoBody == -8      \* no response body was read
DefaultBalance == 1000
CriticalMaxAge == 60

\* self.cache_timeout
cache_timeout(variant, type) ==
    IF variant = "ultra"
    THEN (CASE type = "position" -> 1800 [] type = "balance" -> 3600
            [] type = "order_status" -> 300 [] OTHER -> 120)
    ELSE IF variant = "emergency"
    THEN (CASE type = "position" -> 300 [] type = "balance" -> 600
            [] type = "order_status" -> 60 [] OTHER -> 30)
    ELSE (CASE type = "position" -> 300 [] type = "balance" -> 600
            [] type = "order_status" -> 30 [] OTHER -> 60)

\* self.min_intervals
min_intervals(variant, type) ==
    IF variant = "ultra"
    THEN (CASE type = "position" -> 300 [] type = "balance" -> 600
            [] type = "order_status" -> 60 [] OTHER -> 30)
    ELSE (CASE type = "position" -> 60 [] type = "balance" -> 300
            [] type = "order_status" -> 10 [] OTHER -> 15)

NoEntry == [has |-> FALSE, data |-> NoData, time |-> 0]
NoCall == [key |-> "", path |-> "none", had |-> FALSE, old |-> NoData,
           result |-> NoData, ret |-> NoData, raised |-> FALSE, body |-> NoBody,
           force |-> FALSE]
NoCachedTrader == [variant |-> "none", type |-> "", entries |-> [k \in CacheKeys |-> NoEntry],
                   last_api_call |-> 0, calls |-> 0, call |-> NoCall]

\* _can_make_api_call
can_make_api_call(C, force_critical, t) ==
    IF force_critical THEN TRUE
    ELSE ~(t - C.last_api_call < min_intervals(C.variant, C.type))

\* _get_websocket_fallback: a quote made from the last price of the market
\* feed (None when there is none), a fixed balance, None otherwise
get_websocket_fallback(type, ws) ==
    IF type = "bid_ask" THEN ws
    ELSE IF type = "balance" THEN DefaultBalance
    ELSE NoData

\* the fetch raised (no value)
Raises == -3

\* what the fetch comes to: the fresh value is stored with the time of the
\* call and the last-call time of the type is set
store_fetched(C, key, result, t) ==
    [C EXCEPT !.entries[key] = [has |-> TRUE, data |-> result, time |-> t],
              !.last_api_call = t]

\* _get_ultra_cached_data storing the time of a fetch that raised
get_ultra_cached_data_counts_failure(C, key, fetch, t) ==
    LET e == C.entries[key]
    IN IF e.has /\ t - e.time < cache_timeout(C.variant, C.type)
       THEN [c |-> C, result |-> e.data, path |-> "hit"]
       ELSE IF ~can_make_api_call(C, FALSE, t)
       THEN [c |-> C, result |-> IF e.has THEN e.data ELSE NoData, path |-> "denied"]
       ELSE IF fetch = Raises
       THEN [c |-> [C EXCEPT !.last_api_call = t],
             result |-> IF e.has THEN e.data ELSE NoData, path |-> "fetch_raised"]
       ELSE [c |-> store_fetched(C, key, fetch, t), result |-> fetch, path |-> "fetched"]

\* _get_ultra_cached_data
get_ultra_cached_data(C, key, fetch, t) ==
    LET e == C.entries[key]
    IN IF e.has /\ t - e.time < cache_timeout(C.variant, C.type)
       THEN [c |-> C, result |-> e.data, path |-> "hit"]
       ELSE IF ~can_make_api_call(C, FALSE, t)
       THEN [c |-> C, result |-> IF e.has THEN e.data ELSE NoData, path |-> "denied"]
       ELSE IF fetch = Raises
       THEN [c |-> C, result |-> IF e.has THEN e.data ELSE NoData, path |-> "fetch_raised"]
       ELSE [c |-> store_fetched(C, key, fetch, t), result |-> fetch, path |-> "fetched"]

\* _get_safe_cached_data
get_safe_cached_data(C, key, fetch, force_critical, ws, t) ==
    LET e == C.entries[key]
        max_age0 == cache_timeout(C.variant, C.type)
        max_age == IF force_critical /\ CriticalMaxAge < max_age0 THEN CriticalMaxAge ELSE max_age0
        fallback == IF e.has THEN e.data ELSE get_websocket_fallback(C.type, ws)
    IN IF e.has /\ t - e.time < max_age
       THEN [c |-> C, result |-> e.data, path |-> "hit"]
       ELSE IF ~can_make_api_call(C, force_critical, t)
       THEN [c |-> C, result |-> fallback, path |-> "denied"]
       ELSE IF fetch = Raises
       THEN [c |-> C, result |-> fallback, path |-> "fetch_raised"]
       ELSE [c |-> store_fetched(C, key, fetch, t), result |-> fetch, path |-> "fetched"]

\* get_position_amt / get_balance / get_best_bid_ask / get_order_status: what
\* the getter makes of the result of the cached read
getter_return(type, result) ==
    IF type = "position" THEN (IF result # NoData THEN result ELSE 0)
    ELSE IF type = "balance" THEN (IF result # NoData THEN result ELSE DefaultBalance)
    ELSE IF type = "bid_ask" THEN (IF result # NoData THEN result ELSE NoBidAsk)
    ELSE result

\* what the fetch function of a getter can come to
FetchOutcomes(variant, type) ==
    IF variant = "ultra" /\ type = "balance" THEN {DefaultBalance}
    ELSE IF variant = "ultra" /\ type = "bid_ask" THEN {Raises, NoBidAsk} \cup (1..MaxData)
    ELSE IF type = "position" THEN {Raises} \cup (0..MaxData)
    ELSE IF type = "order_status" THEN {Raises, NoData} \cup (1..MaxData)
    ELSE {Raises} \cup (1..MaxData)

\* the getter is asked with force_critical: get_position_amt always
\* (_is_critical_operation('entry_check') is true), get_order_status when
\* 'order_placed' is marked, the others never
Criticals(type) ==
    IF type = "position" THEN {TRUE}
    ELSE IF type = "order_status" THEN BOOLEAN
    ELSE {FALSE}

MkCall(C, key, r) ==
    [key |-> key, path |-> r.path, had |-> C.entries[key].has, old |-> C.entries[key].data,
     result |-> r.result, ret |-> getter_return(C.type, r.result), raised |-> FALSE,
     body |-> NoBody, force |-> FALSE]

\* the body of the position endpoint's response: a list holding the quantity
\* of the side, nothing, text that is not JSON, an error object, or the error
\* object of the rate limit (code -1003)
EmptyBody == -4
UnparsableBody == -5
ErrorBody == -6
RateLimitBody == -7
PositionBodies == {EmptyBody, UnparsableBody, ErrorBody, RateLimitBody} \cup (0..MaxData)

\* fetch_position of get_position_amt.  The conservative traders return 0.0
\* for an empty or unparsable body and for an error object other than -1003,
\* for which they raise; in the emergency trader resp.json() and the loop over
\* an error object raise.
fetch_position(variant, body) ==
    IF body = EmptyBody THEN 0
    ELSE IF body = UnparsableBody THEN (IF variant = "emergency" THEN Raises ELSE 0)
    ELSE IF body = ErrorBody THEN (IF variant = "emergency" THEN Raises ELSE 0)
    ELSE IF body = RateLimitBody THEN Raises
    ELSE body

\* UMBinanceTrader_emergency._get_cached_or_fetch
get_cached_or_fetch(C, key, fetch, t) ==
    LET e == C.entries[key]
    IN IF e.has /\ t - e.time < cache_timeout(C.variant, C.type)
       THEN [c |-> C, result |-> e.data, path |-> "hit"]
       ELSE IF fetch = Raises
       THEN [c |-> C, result |-> IF e.has THEN e.data ELSE NoData, path |-> "fetch_raised"]
       ELSE [c |-> [C EXCEPT !.entries[key] = [has |-> TRUE, data |-> fetch, time |-> t]],
             result |-> fetch, path |-> "fetched"]

\* UMBinanceTrader_emergency._original_get_position_amt: no cache; 0.0 when
\* anything raises
original_get_position_amt(C, body) ==
    LET f == fetch_position("emergency", body)
    IN [c |-> C, result |-> IF f = Raises THEN 0 ELSE f, path |-> "direct"]

\* _is_critical_operation('entry_check') of the safe trader
is_critical_entry_check == TRUE

\* get_position_amt of the three caching traders
get_position_amt(C, key, body, force_refresh, t) ==
    IF C.variant = "ultra"
    THEN get_ultra_cached_data(C, key, fetch_position("ultra", body), t)
    ELSE IF C.variant = "safe"
    THEN get_safe_cached_data(C, key, fetch_position("safe", body),
                              force_refresh \/ is_critical_entry_check, NoData, t)
    ELSE IF force_refresh THEN original_get_position_amt(C, body)
    ELSE get_cached_or_fetch(C, key, fetch_position("emergency", body), t)

\* -------------------------------------------------------------------- state
VARIABLES
    now,             \* wall clock
    pc,              \* the engine's position in run_kline_logic
    startup_mode,    \* SymbolEngine.startup_mode
    last_sync,       \* _last_sync_times[last_sync_<symbol>], 0 when absent
    tracker,         \* the order ledger: orders and aggregate quantity per side
    resv,            \* direction conflict guard: reservation per side
    exOrders,        \* orders at the exchange, by id
    exPos,           \* position at the exchange per side
    next_id,         \* next order id the exchange hands out
    rl_used,         \* weight consumed in the admission controller's window
    api_log,         \* the exchange calls of the latest step, with their admission
    trader_variant,  \* which UMBinanceTrader the engine was built with
    sync_result,     \* outcome of the sync of the latest step, "none" otherwise
    attempt,         \* the entry attempt of the latest step
    cd_error,        \* sides whose cooldown evaluation raised in this cycle
    cooldown_answer, \* latest is_in_loss_cooldown call: evaluation and answer
    hb_pos,          \* position of the heartbeat's loop over the orders
    guard_call,      \* latest guard query asked on its own: inputs and answer
    cache,           \* a caching trader: its cache, last-call times, latest call
    adm              \* admission controller: waiting tickets, latest decision

vars == <<now, pc, startup_mode, last_sync, tracker, resv, exOrders, exPos,
          next_id, rl_used, api_log, trader_variant, cache, adm, sync_result, attempt,
          cd_error, cooldown_answer, hb_pos, guard_call>>

NoAttempt == [side |-> "", stage |-> "none", qty |-> 0, placed |-> FALSE, ret |-> None]
NoAnswer == [eval |-> "none", answer |-> FALSE]
NoGuardCall == [query |-> "none", direction |-> "", mgr |-> "", handler |-> "",
                score |-> 0, pos |-> 0, unified |-> "", legacy |-> FALSE,
                emergency |-> FALSE, threshold |-> 0, raised |-> FALSE,
                balance |-> 0, used |-> 0, usdt |-> 0, price |-> 0,
                qty |-> 0, notional |-> 0, pnls |-> {}, answer |-> FALSE]

\* the ledger snapshot loaded at start: empty, or one entry order still
\* pending at the exchange
Init ==
    /\ now = Epoch
    /\ pc = "idle"
    /\ startup_mode = TRUE
    /\ last_sync = 0
    /\ resv = NoReservations
    /\ exPos = [s \in Sides |-> 0]
    /\ rl_used = 0
    /\ api_log = {}
    /\ trader_variant \in {"main", "fixed"}
    /\ sync_result = "none"
    /\ attempt = NoAttempt
    /\ cd_error = {}
    /\ cooldown_answer = NoAnswer
    /\ hb_pos = 0
    /\ guard_call = NoGuardCall
    /\ cache = NoCachedTrader
    /\ adm = NoAdmission
    /\ \/ /\ tracker = EmptyLedger
          /\ exOrders = NoExchangeOrders
          /\ next_id = 1
       \/ \E s \in Sides, q \in {1} :
          /\ tracker = add_order(EmptyLedger, s, q, 1, Epoch, TRUE)
          /\ exOrders = [NoExchangeOrders EXCEPT ![1] =
                            [side |-> s, qty |-> q, st |-> "NEW", kind |-> "LIMIT"]]
          /\ next_id = 2

\* a step that syncs nothing, attempts no entry and calls no exchange method
QuietStep ==
    /\ sync_result' = "none"
    /\ attempt' = NoAttempt
    /\ api_log' = {}
    /\ cooldown_answer' = NoAnswer
    /\ guard_call' = NoGuardCall

\* ------------------------------------------------------------- environment
\* the clock is observed between two evaluation cycles
Tick ==
    /\ pc = "idle"
    /\ now + TickStep <= Epoch + MaxTime
    /\ now' = now + TickStep
    /\ QuietStep
    /\ UNCHANGED <<pc, startup_mode, last_sync, tracker, resv, exOrders, exPos,
                   next_id, rl_used, trader_variant, cache, adm, cd_error, hb_pos>>

\* the exchange fills a resting limit order
ExchangeFill ==
    \E id \in 1..MaxId :
        /\ pc = "idle"
        /\ exOrders[id].st = "NEW"
        /\ exOrders' = [exOrders EXCEPT ![id].st = "FILLED"]
        /\ exPos' = [exPos EXCEPT ![exOrders[id].side] = @ + exOrders[id].qty]
        /\ QuietStep
        /\ UNCHANGED <<now, pc, startup_mode, last_sync, tracker, resv, next_id,
                       rl_used, trader_variant, cache, adm, cd_error, hb_pos>>

\* the position of a side is closed at the exchange (exit orders, liquidation)
ExchangeClose ==
    \E s \in Sides :
        /\ pc = "idle"
        /\ exPos[s] > 0
        /\ exPos' = [exPos EXCEPT ![s] = 0]
        /\ QuietStep
        /\ UNCHANGED <<now, pc, startup_mode, last_sync, tracker, resv, exOrders,
                       next_id, rl_used, trader_variant, cache, adm, cd_error, hb_pos>>

\* the admission controller's rolling window slides
WindowSlide ==
    /\ pc = "idle"
    /\ rl_used > 0
    /\ rl_used' = 0
    /\ QuietStep
    /\ UNCHANGED <<now, pc, startup_mode, last_sync, tracker, resv, exOrders, exPos,
                   next_id, trader_variant, cache, adm, cd_error, hb_pos>>

\* a reservation that was not followed by a submission expires
ReservationExpire ==
    \E s \in Sides :
        /\ pc = "idle"
        /\ resv[s] = "reserved"
        /\ resv' = [resv EXCEPT ![s] = "none"]
        /\ QuietStep
        /\ UNCHANGED <<now, pc, startup_mode, last_sync, tracker, exOrders, exPos,
                       next_id, rl_used, trader_variant, cache, adm, cd_error, hb_pos>>

\* ------------------------------------------------------------------ engine
disable_startup_mode ==
    /\ pc = "idle"
    /\ startup_mode = TRUE
    /\ startup_mode' = FALSE
    /\ QuietStep
    /\ UNCHANGED <<now, pc, last_sync, tracker, resv, exOrders, exPos,
                   next_id, rl_used, trader_variant, cache, adm, cd_error, hb_pos>>

\* run_kline_logic going on with the cycle while startup mode is on
run_kline_logic_ungated ==
    \E conditions_ok \in BOOLEAN :
        /\ pc = "idle"
        /\ LET leaves_startup == startup_mode /\ now - Epoch > StartupSeconds
           IN /\ startup_mode' = IF leaves_startup THEN FALSE ELSE startup_mode
              /\ pc' = IF ~conditions_ok THEN "idle" ELSE "sync"
        /\ cd_error' = {}
        /\ QuietStep
        /\ UNCHANGED <<now, last_sync, tracker, resv, exOrders, exPos,
                       next_id, rl_used, trader_variant, cache, adm, hb_pos>>

\* run_kline_logic up to the position sync: the startup gate, the basic
\* conditions and the market data (inputs of the strategy layer)
run_kline_logic ==
    \E conditions_ok \in BOOLEAN :
        /\ pc = "idle"
        /\ LET leaves_startup == startup_mode /\ now - Epoch > StartupSeconds
               gated == startup_mode /\ ~leaves_startup
           IN /\ startup_mode' = IF leaves_startup THEN FALSE ELSE startup_mode
              /\ pc' = IF gated \/ ~conditions_ok THEN "idle" ELSE "sync"
        /\ cd_error' = {}
        /\ QuietStep
        /\ UNCHANGED <<now, last_sync, tracker, resv, exOrders, exPos,
                       next_id, rl_used, trader_variant, cache, adm, hb_pos>>

\* _sync_positions_optimized stamping the time of the sync only when the
\* sync went through
sync_positions_optimized_forgets_failure ==
    \E kind \in (IF now - last_sync < SyncInterval THEN {"list"} ELSE SyncKinds) :
    \E first \in (IF kind = "list" /\ ~(now - last_sync < SyncInterval) THEN Sides ELSE {"LONG"}),
       bad \in (IF kind = "list" /\ ~(now - last_sync < SyncInterval) THEN 0..3 ELSE {0}) :
        /\ pc = "sync"
        /\ pc' = "entry_long"
        /\ IF now - last_sync < SyncInterval
           THEN /\ sync_result' = "none"
                /\ UNCHANGED <<last_sync, tracker, resv>>
           ELSE LET s == sync_position_from_binance(trader_variant, tracker, kind,
                                                    PositionReport(exPos, first, bad))
                    c == CleanSides(s.tracker, resv, SideOrder)
                IN /\ sync_result' = s.result
                   /\ last_sync' = IF s.result = "ok" THEN now ELSE last_sync
                   /\ tracker' = c.tracker
                   /\ resv' = c.resv
        /\ attempt' = NoAttempt
        /\ api_log' = {}
        /\ UNCHANGED <<now, startup_mode, exOrders, exPos, next_id, rl_used,
                       trader_variant, cache, adm, cd_error, cooldown_answer,
                       hb_pos, guard_call>>

\* _sync_positions_optimized
sync_positions_optimized ==
    \E kind \in (IF now - last_sync < SyncInterval THEN {"list"} ELSE SyncKinds) :
    \E first \in (IF kind = "list" /\ ~(now - last_sync < SyncInterval) THEN Sides ELSE {"LONG"}),
       bad \in (IF kind = "list" /\ ~(now - last_sync < SyncInterval) THEN 0..3 ELSE {0}) :
        /\ pc = "sync"
        /\ pc' = "entry_long"
        /\ IF now - last_sync < SyncInterval
           THEN /\ sync_result' = "none"
                /\ UNCHANGED <<last_sync, tracker, resv>>
           ELSE LET s == sync_position_from_binance(trader_variant, tracker, kind,
                                                    PositionReport(exPos, first, bad))
                    c == CleanSides(s.tracker, resv, SideOrder)
                IN /\ sync_result' = s.result
                   /\ last_sync' = now
                   /\ tracker' = c.tracker
                   /\ resv' = c.resv
        /\ attempt' = NoAttempt
        /\ api_log' = {}
        /\ UNCHANGED <<now, startup_mode, exOrders, exPos, next_id, rl_used,
                       trader_variant, cache, adm, cd_error, cooldown_answer,
                       hb_pos, guard_call>>

\* where an entry attempt can be stopped by a decision taken outside the
\* model (strategy, scores, prices, balances); "none": nothing stops it.
\* The attempt records all of them as "vetoed", but the raising cooldown check
\* and the veto of the global directional risk check.
Vetoes == {"none", "pre", "loss", "global", "cooldown", "cooldown_raise",
           "analyzer", "pm_opposite", "funds", "qty_invalid"}

\* how tracker.add_order / save_state / get_active_orders (in
\* _verify_entry_recorded) behave in _record_entry_order
RecordOutcomes == {"ok", "add_raises", "save_raises", "verify_raises"}

MkAttempt(side, stage, qty, placed, ret) ==
    [side |-> side, stage |-> stage, qty |-> qty, placed |-> placed, ret |-> ret]

MkEntry(L, rv, W, att) == [tracker |-> L, resv |-> rv, w |-> W, attempt |-> att]

\* _record_entry_order with _verify_entry_recorded, _retry_entry_record and
\* _emergency_entry_record
record_entry_order(L, rv, side, qty, id, rec, t) ==
    LET first == IF rec = "add_raises" THEN L ELSE add_order(L, side, qty, id, t, FALSE)
        emergency == add_order(first, side, qty, id, t, FALSE)
        recorded == IF rec = "ok" THEN first ELSE emergency
        verified == rec # "verify_raises" /\ HasOrderId(recorded, side, id)
        final == IF verified THEN recorded ELSE add_order(recorded, side, qty, id, t, FALSE)
    IN [tracker |-> final, resv |-> confirm_entry_success(rv, side)]

\* _execute_limit_entry_only: the trader is called directly
execute_limit_entry_only(W, side, qty, accept, t) ==
    LET r == place_limit_order(W, side, qty, accept, t)
    IN [w |-> LogCall(r.w, LogEntry("limit", "direct", FALSE, FALSE, TRUE, r.ret # None, 0,
                                    "-", IdStr(r.ret))),
        ret |-> r.ret]

\* _place_entry_order
place_entry_order(L, rv, W, side, qty, accept, t) ==
    LET c == check_direction_conflict(rv, L, side)
    IN IF ~c.allowed THEN [w |-> W, resv |-> c.resv, ret |-> None, stage |-> "place_conflict"]
       ELSE IF has_duplicate_pending_order(L, side, qty, t)
            THEN [w |-> W, resv |-> c.resv, ret |-> None, stage |-> "duplicate"]
       ELSE LET r == execute_limit_entry_only(W, side, qty, accept, t)
            IN [w |-> r.w, resv |-> c.resv, ret |-> r.ret,
                stage |-> IF r.ret = None THEN "rejected" ELSE "recorded"]

\* _execute_entry returning after a failed submission without releasing the
\* reservation
execute_entry_keeps_reservation(L, rv, W, side, veto, qty, accept, rec, t) ==
    LET c == check_direction_conflict(rv, L, side)
        stop(stage) == MkEntry(L, c.resv, W, MkAttempt(side, stage, 0, FALSE, None))
    IN IF veto = "analyzer" THEN MkEntry(L, rv, W, MkAttempt(side, "vetoed", 0, FALSE, None))
       ELSE IF ~c.allowed THEN stop("conflict")
       ELSE IF veto = "pm_opposite" THEN stop("vetoed")
       ELSE IF get_current_position(L, Opposite(side)) > 0 THEN stop("tracker_opposite")
       ELSE IF veto = "funds" THEN stop("vetoed")
       ELSE IF veto = "qty_invalid" THEN stop("vetoed")
       ELSE IF \E i \in 1..Len(get_active_orders(L, side)) :
                    /\ get_active_orders(L, side)[i].entry_pending
                    /\ ~get_active_orders(L, side)[i].closed
            THEN stop("pending")
       ELSE LET p == place_entry_order(L, c.resv, W, side, qty, accept, t)
            IN IF p.ret = None
               THEN MkEntry(L, p.resv, p.w, MkAttempt(side, p.stage, qty, TRUE, None))
               ELSE LET r == record_entry_order(L, p.resv, side, qty, p.ret, rec, t)
                    IN MkEntry(r.tracker, r.resv, p.w, MkAttempt(side, "recorded", qty, TRUE, p.ret))

\* _execute_entry, after the optional sync before entry
execute_entry(L, rv, W, side, veto, qty, accept, rec, t) ==
    LET c == check_direction_conflict(rv, L, side)
        stop(stage) == MkEntry(L, c.resv, W, MkAttempt(side, stage, 0, FALSE, None))
    IN IF veto = "analyzer" THEN MkEntry(L, rv, W, MkAttempt(side, "vetoed", 0, FALSE, None))
       ELSE IF ~c.allowed THEN stop("conflict")
       ELSE IF veto = "pm_opposite" THEN stop("vetoed")
       ELSE IF get_current_position(L, Opposite(side)) > 0 THEN stop("tracker_opposite")
       ELSE IF veto = "funds" THEN stop("vetoed")
       ELSE IF veto = "qty_invalid" THEN stop("vetoed")
       ELSE IF \E i \in 1..Len(get_active_orders(L, side)) :
                    /\ get_active_orders(L, side)[i].entry_pending
                    /\ ~get_active_orders(L, side)[i].closed
            THEN stop("pending")
       ELSE LET p == place_entry_order(L, c.resv, W, side, qty, accept, t)
            IN IF p.ret = None
               THEN MkEntry(L, cancel_entry_reservation(p.resv, side), p.w,
                            MkAttempt(side, p.stage, qty, TRUE, None))
               ELSE LET r == record_entry_order(L, p.resv, side, qty, p.ret, rec, t)
                    IN MkEntry(r.tracker, r.resv, p.w, MkAttempt(side, "recorded", qty, TRUE, p.ret))

\* _process_entry_logic going on to _execute_entry although the global
\* directional risk check vetoes the direction
process_entry_logic_global_ignored(L, Lsynced, rv, W, side, veto, qty, accept, rec, t) ==
    LET c == check_direction_conflict(rv, L, side)
        stop(stage) == MkEntry(L, c.resv, W, MkAttempt(side, stage, 0, FALSE, None))
        e == execute_entry(Lsynced, c.resv, W, side, veto, qty, accept, rec, t)
    IN IF veto = "pre" THEN MkEntry(L, rv, W, MkAttempt(side, "vetoed", 0, FALSE, None))
       ELSE IF ~c.allowed THEN stop("conflict")
       ELSE IF get_total_quantity(L, Opposite(side)) > 0 THEN stop("opposite")
       ELSE IF veto = "cooldown_raise" THEN stop("cooldown_raise")
       ELSE IF veto = "loss" THEN stop("vetoed")
       ELSE IF veto = "global" THEN [e EXCEPT !.attempt.stage = "global_veto"]
       ELSE IF veto = "cooldown" THEN stop("vetoed")
       ELSE e

\* _process_entry_logic asking the exchange for the position before its
\* direction-conflict checks
process_entry_logic_queries_first(L, Lsynced, rv, W, side, veto, qty, accept, rec, t) ==
    LET c == check_direction_conflict(rv, L, side)
        Wq == LogCall(W, LogEntry("position", "direct", FALSE, FALSE, TRUE, TRUE, 0, "-", "None"))
        stop(stage) == MkEntry(L, c.resv, Wq, MkAttempt(side, stage, 0, FALSE, None))
    IN IF veto = "pre" THEN MkEntry(L, rv, W, MkAttempt(side, "vetoed", 0, FALSE, None))
       ELSE IF ~c.allowed THEN stop("conflict")
       ELSE IF get_total_quantity(L, Opposite(side)) > 0 THEN stop("opposite")
       ELSE IF veto = "cooldown_raise" THEN stop("cooldown_raise")
       ELSE IF veto = "loss" THEN stop("vetoed")
       ELSE IF veto = "global" THEN stop("global_veto")
       ELSE IF veto = "cooldown" THEN stop("vetoed")
       ELSE execute_entry(Lsynced, c.resv, Wq, side, veto, qty, accept, rec, t)

\* the body of _process_entry_logic's loop for one direction
process_entry_logic(L, Lsynced, rv, W, side, veto, qty, accept, rec, t) ==
    LET c == check_direction_conflict(rv, L, side)
        stop(stage) == MkEntry(L, c.resv, W, MkAttempt(side, stage, 0, FALSE, None))
    IN IF veto = "pre" THEN MkEntry(L, rv, W, MkAttempt(side, "vetoed", 0, FALSE, None))
       ELSE IF ~c.allowed THEN stop("conflict")
       ELSE IF get_total_quantity(L, Opposite(side)) > 0 THEN stop("opposite")
       ELSE IF veto = "cooldown_raise" THEN stop("cooldown_raise")
       ELSE IF veto = "loss" THEN stop("vetoed")
       ELSE IF veto = "global" THEN stop("global_veto")
       ELSE IF veto = "cooldown" THEN stop("vetoed")
       ELSE execute_entry(Lsynced, c.resv, W, side, veto, qty, accept, rec, t)

\* _should_sync_before_entry
should_sync_before_entry == ~startup_mode /\ now - last_sync > SyncBeforeEntryAge

\* one pass of the loop of _process_entry_logic, for direction `side`
ProcessEntry(side, next_pc) ==
    \E veto \in Vetoes :
    \E qty \in (IF veto = "none" THEN 1..MaxQty ELSE {1}),
       accept \in (IF veto = "none" /\ Len(tracker.orders[side]) < MaxOrders THEN BOOLEAN ELSE {FALSE}),
       kind \in (IF should_sync_before_entry THEN SyncKinds ELSE {"list"}),
       first \in (IF should_sync_before_entry THEN Sides ELSE {"LONG"}),
       bad \in (IF should_sync_before_entry THEN 0..3 ELSE {0}) :
    \E rec \in (IF accept THEN RecordOutcomes ELSE {"ok"}) :
        LET synced == IF should_sync_before_entry
                      THEN sync_position_from_binance(trader_variant, tracker, kind,
                                                      PositionReport(exPos, first, bad)).tracker
                      ELSE tracker
            W == MkWorld(exOrders, exPos, next_id, rl_used, {})
            r == process_entry_logic(tracker, synced, resv, W, side, veto, qty, accept, rec, now)
        IN /\ tracker' = r.tracker
           /\ resv' = r.resv
           /\ exOrders' = r.w.exOrders
           /\ exPos' = r.w.exPos
           /\ next_id' = r.w.next_id
           /\ rl_used' = r.w.rl_used
           /\ api_log' = r.w.api_log
           /\ attempt' = r.attempt
           /\ cd_error' = IF r.attempt.stage = "cooldown_raise" THEN cd_error \cup {side} ELSE cd_error
           /\ pc' = IF r.attempt.stage = "cooldown_raise" THEN "idle" ELSE next_pc
           /\ sync_result' = "none"
           /\ UNCHANGED <<now, startup_mode, last_sync, trader_variant, cache, adm,
                          cooldown_answer, hb_pos, guard_call>>

process_entry_long ==
    /\ pc = "entry_long"
    /\ ProcessEntry("LONG", "entry_short")

process_entry_short ==
    /\ pc = "entry_short"
    /\ ProcessEntry("SHORT", "heartbeat")

\* _save_state_and_heartbeat up to its loop: is any entry order pending
save_state_and_heartbeat ==
    /\ pc = "heartbeat"
    /\ LET has_pending_orders ==
               \E side \in Sides : \E i \in 1..Len(get_active_orders(tracker, side)) :
                   /\ get_active_orders(tracker, side)[i].entry_pending
                   /\ ~get_active_orders(tracker, side)[i].closed
       IN IF has_pending_orders
          THEN /\ pc' = "hb_loop"
               /\ hb_pos' = 1
          ELSE /\ pc' = "idle"
               /\ hb_pos' = 0
    /\ QuietStep
    /\ UNCHANGED <<now, startup_mode, last_sync, tracker, resv, exOrders, exPos,
                   next_id, rl_used, trader_variant, cache, adm, cd_error>>

\* the order the heartbeat's loop visits at position k: the LONG list, then
\* the SHORT list
HbSide(k) == IF k <= Len(tracker.orders["LONG"]) THEN "LONG" ELSE "SHORT"
HbIndex(k) == IF k <= Len(tracker.orders["LONG"]) THEN k ELSE k - Len(tracker.orders["LONG"])
HbCount == Len(tracker.orders["LONG"]) + Len(tracker.orders["SHORT"])

\* the timeout handling of one order in _save_state_and_heartbeat
handle_order_timeout(L, W, side, i, reads, slid_c, accept_c, slid_m, accept_m, t) ==
    LET o == L.orders[side][i]
        c == cancel_order_with_rate_limit(W, o.id, slid_c, accept_c)
        escalate == o.qty > 0 /\ o.entry_pending
        m == IF escalate
             THEN place_market_order_with_rate_limit(c.w, L, reads, side, o.qty, slid_m,
                                                     accept_m, t)
             ELSE [w |-> c.w, ret |-> None]
        o2 == [o EXCEPT !.timeout_processing = TRUE,
                        !.id = IF m.ret # None THEN m.ret ELSE o.id,
                        !.entry_pending = IF m.ret # None THEN FALSE ELSE o.entry_pending,
                        !.closed = TRUE,
                        !.exit_status = "CONVERTED_TO_MARKET"]
    IN [tracker |-> [L EXCEPT !.orders[side][i] = o2], w |-> m.w]

\* is the order at position k due for timeout handling
HbDue(k) ==
    LET o == tracker.orders[HbSide(k)][HbIndex(k)]
    IN /\ o.submit_time # 0
       /\ ~o.closed
       /\ ~o.timeout_processing
       /\ now - o.submit_time > HeartbeatTimeout
       /\ o.id # None

\* the outcomes of admission and of the exchange matter only for a due order
HbInputs == IF hb_pos <= HbCount /\ HbDue(hb_pos) THEN BOOLEAN ELSE {FALSE}

\* one iteration of the loop over the orders in _save_state_and_heartbeat (in
\* the engine's cycle the ledger is read without failure)
heartbeat_step ==
    /\ pc = "hb_loop"
    /\ hb_pos <= HbCount
    /\ \E slid_c \in HbInputs, accept_c \in HbInputs, slid_m \in HbInputs, accept_m \in HbInputs :
        LET side == HbSide(hb_pos)
            i == HbIndex(hb_pos)
            o == tracker.orders[side][i]
            due == HbDue(hb_pos)
            W == MkWorld(exOrders, exPos, next_id, rl_used, {})
            r == handle_order_timeout(tracker, W, side, i, TRUE, slid_c, accept_c, slid_m,
                                      accept_m, now)
        IN IF due
           THEN /\ tracker' = r.tracker
                /\ exOrders' = r.w.exOrders
                /\ exPos' = r.w.exPos
                /\ next_id' = r.w.next_id
                /\ rl_used' = r.w.rl_used
                /\ api_log' = r.w.api_log
           ELSE /\ api_log' = {}
                /\ UNCHANGED <<tracker, exOrders, exPos, next_id, rl_used>>
    /\ hb_pos' = hb_pos + 1
    /\ sync_result' = "none"
    /\ attempt' = NoAttempt
    /\ cooldown_answer' = NoAnswer
    /\ UNCHANGED <<now, pc, startup_mode, last_sync, resv, trader_variant, cache, adm, cd_error,
                   guard_call>>

\* the loop is over: the heartbeat pass is complete
heartbeat_done ==
    /\ pc = "hb_loop"
    /\ hb_pos > HbCount
    /\ pc' = "idle"
    /\ hb_pos' = 0
    /\ QuietStep
    /\ UNCHANGED <<now, startup_mode, last_sync, tracker, resv, exOrders, exPos,
                   next_id, rl_used, trader_variant, cache, adm, cd_error>>

\* a caller asks is_in_loss_cooldown
call_is_in_loss_cooldown ==
    \E eval \in CooldownEvals :
        /\ pc = "idle"
        /\ cooldown_answer' = [eval |-> eval, answer |-> is_in_loss_cooldown(eval)]
        /\ sync_result' = "none"
        /\ attempt' = NoAttempt
        /\ api_log' = {}
        /\ UNCHANGED <<now, pc, startup_mode, last_sync, tracker, resv, exOrders, exPos,
                       next_id, rl_used, trader_variant, cache, adm, cd_error,
                       hb_pos, guard_call>>

Spec == Init /\ [][
    \/ Tick
    \/ ExchangeFill
    \/ ExchangeClose
    \/ WindowSlide
    \/ ReservationExpire
    \/ disable_startup_mode
    \/ run_kline_logic
    \/ sync_positions_optimized
    \/ process_entry_long
    \/ process_entry_short
    \/ save_state_and_heartbeat
    \/ heartbeat_step
    \/ heartbeat_done
    \/ call_is_in_loss_cooldown
    ]_vars

\* ------------------------------------- the engine through its startup mode
\* The engine's cycle observed over the first minutes after construction: the
\* clock moves in steps of StartupStep seconds up to StartupHorizon seconds
\* after construction, so that run_kline_logic is called before and after the
\* 120 seconds of the startup timer.
TickStartup ==
    /\ pc = "idle"
    /\ now + StartupStep <= Epoch + StartupHorizon
    /\ now' = now + StartupStep
    /\ QuietStep
    /\ UNCHANGED <<pc, startup_mode, last_sync, tracker, resv, exOrders, exPos,
                   next_id, rl_used, trader_variant, cache, adm, cd_error, hb_pos>>

SpecStartup == Init /\ [][
    \/ TickStartup
    \/ disable_startup_mode
    \/ run_kline_logic
    \/ sync_positions_optimized
    \/ process_entry_long
    \/ process_entry_short
    \/ save_state_and_heartbeat
    \/ heartbeat_step
    \/ heartbeat_done
    ]_vars

\* ------------------------------------------- the helpers called on their own
\* The four rate-limited helpers as operations of their own: a behaviour is
\* one call of one helper.  The call finds the engine as it is after
\* construction (see Init), the persisted entry order in any state the
\* exchange can have brought it to, and the admission controller's window
\* (shared by all symbols) filled to any level.
InitHelpers ==
    /\ now = Epoch
    /\ pc = "idle"
    /\ startup_mode = TRUE
    /\ last_sync = 0
    /\ resv = NoReservations
    /\ rl_used \in 0..RateCeiling
    /\ api_log = {}
    /\ trader_variant \in {"main", "fixed"}
    /\ sync_result = "none"
    /\ attempt = NoAttempt
    /\ cd_error = {}
    /\ cooldown_answer = NoAnswer
    /\ hb_pos = 0
    /\ guard_call = NoGuardCall
    /\ cache = NoCachedTrader
    /\ adm = NoAdmission
    /\ \/ /\ tracker = EmptyLedger
          /\ exOrders = NoExchangeOrders
          /\ exPos = [s \in Sides |-> 0]
          /\ next_id = 1
       \/ \E s \in Sides, st \in {"NEW", "FILLED", "CANCELED"} :
          /\ tracker = add_order(EmptyLedger, s, 1, 1, Epoch, TRUE)
          /\ exOrders = [NoExchangeOrders EXCEPT ![1] =
                            [side |-> s, qty |-> 1, st |-> st, kind |-> "LIMIT"]]
          /\ exPos = [x \in Sides |-> IF x = s /\ st = "FILLED" THEN 1 ELSE 0]
          /\ next_id = 2

HelperFrame ==
    /\ sync_result' = "none"
    /\ attempt' = NoAttempt
    /\ cooldown_answer' = NoAnswer
    /\ UNCHANGED <<now, pc, startup_mode, last_sync, tracker, resv, trader_variant, cache, adm,
                   cd_error, hb_pos, guard_call>>

call_place_limit_order ==
    \E side \in Sides, qty \in 1..MaxQty, slid \in BOOLEAN, accept \in BOOLEAN :
        LET r == place_limit_order_with_rate_limit(
                     MkWorld(exOrders, exPos, next_id, rl_used, {}), side, qty, slid, accept, now)
        IN /\ api_log = {}
           /\ exOrders' = r.w.exOrders
           /\ exPos' = r.w.exPos
           /\ next_id' = r.w.next_id
           /\ rl_used' = r.w.rl_used
           /\ api_log' = r.w.api_log
           /\ HelperFrame

call_check_order_status ==
    \E id \in 1..MaxId, answers \in BOOLEAN :
        LET r == check_order_status_with_rate_limit(
                     MkWorld(exOrders, exPos, next_id, rl_used, {}), id, answers)
        IN /\ api_log = {}
           /\ rl_used' = r.w.rl_used
           /\ api_log' = r.w.api_log
           /\ UNCHANGED <<exOrders, exPos, next_id>>
           /\ HelperFrame

call_cancel_order ==
    \E id \in 1..MaxId, slid \in BOOLEAN, accept \in BOOLEAN :
        LET r == cancel_order_with_rate_limit(
                     MkWorld(exOrders, exPos, next_id, rl_used, {}), id, slid, accept)
        IN /\ api_log = {}
           /\ exOrders' = r.w.exOrders
           /\ rl_used' = r.w.rl_used
           /\ api_log' = r.w.api_log
           /\ UNCHANGED <<exPos, next_id>>
           /\ HelperFrame

call_place_market_order ==
    \E side \in Sides, qty \in 1..MaxQty, reads \in BOOLEAN, slid \in BOOLEAN,
       accept \in BOOLEAN :
        LET r == place_market_order_with_rate_limit(
                     MkWorld(exOrders, exPos, next_id, rl_used, {}), tracker, reads, side,
                     qty, slid, accept, now)
        IN /\ api_log = {}
           /\ exOrders' = r.w.exOrders
           /\ exPos' = r.w.exPos
           /\ next_id' = r.w.next_id
           /\ rl_used' = r.w.rl_used
           /\ api_log' = r.w.api_log
           /\ HelperFrame

SpecHelpers == InitHelpers /\ [][
    \/ call_place_limit_order
    \/ call_check_order_status
    \/ call_cancel_order
    \/ call_place_market_order
    ]_vars

\* ------------------------------------------ the timeout handling on its own
\* The timeout handling of _save_state_and_heartbeat as an operation of its
\* own: a behaviour is the handling of one order.  It finds a persisted entry
\* order older than the timeout, in any state the exchange can have brought
\* it to, the admission controller's window filled to any level, and a ledger
\* whose quantity can or cannot be read.
InitTimeout ==
    /\ now = Epoch + MaxTime
    /\ pc = "idle"
    /\ startup_mode = TRUE
    /\ last_sync = 0
    /\ resv = NoReservations
    /\ rl_used \in 0..RateCeiling
    /\ api_log = {}
    /\ trader_variant \in {"main", "fixed"}
    /\ sync_result = "none"
    /\ attempt = NoAttempt
    /\ cd_error = {}
    /\ cooldown_answer = NoAnswer
    /\ hb_pos = 0
    /\ guard_call = NoGuardCall
    /\ cache = NoCachedTrader
    /\ adm = NoAdmission
    /\ \E s \in Sides, q \in 1..MaxQty, st \in {"NEW", "FILLED", "CANCELED"} :
          /\ tracker = add_order(EmptyLedger, s, q, 1, Epoch, TRUE)
          /\ exOrders = [NoExchangeOrders EXCEPT ![1] =
                            [side |-> s, qty |-> q, st |-> st, kind |-> "LIMIT"]]
          /\ exPos = [x \in Sides |-> IF x = s /\ st = "FILLED" THEN q ELSE 0]
          /\ next_id = 2

call_handle_order_timeout ==
    /\ api_log = {}
    /\ \E k \in 1..HbCount, reads \in BOOLEAN, slid_c \in BOOLEAN, accept_c \in BOOLEAN,
          slid_m \in BOOLEAN, accept_m \in BOOLEAN :
        LET r == handle_order_timeout(tracker, MkWorld(exOrders, exPos, next_id, rl_used, {}),
                                      HbSide(k), HbIndex(k), reads, slid_c, accept_c,
                                      slid_m, accept_m, now)
        IN /\ HbDue(k)
           /\ tracker' = r.tracker
           /\ exOrders' = r.w.exOrders
           /\ exPos' = r.w.exPos
           /\ next_id' = r.w.next_id
           /\ rl_used' = r.w.rl_used
           /\ api_log' = r.w.api_log
           /\ UNCHANGED <<now, pc, startup_mode, last_sync, resv, trader_variant, cache, adm,
                          sync_result, attempt, cd_error, cooldown_answer, hb_pos,
                          guard_call>>

SpecTimeout == InitTimeout /\ [][call_handle_order_timeout]_vars

\* --------------------------------------- runs of the two timeout mechanisms
\* Any sequence of runs of _check_pending_orders_timeout and of the timeout
\* loop of _save_state_and_heartbeat over a ledger holding one pending entry
\* order submitted longer ago than both timeouts; the handling of the order
\* may be interrupted by an exception.
run_timeout_mechanism ==
    \E mech \in TimeoutMechanisms, s \in Sides, reads \in BOOLEAN, slid_c \in BOOLEAN,
       accept_c \in BOOLEAN, slid_m \in BOOLEAN, accept_m \in BOOLEAN,
       interrupt \in {"none", "cancel", "market"} :
        LET o == tracker.orders[s][1]
            r == escalate_on_timeout(mech, tracker, MkWorld(exOrders, exPos, next_id, rl_used, {}),
                                     s, 1, reads, slid_c, accept_c, slid_m, accept_m,
                                     interrupt, now)
        IN /\ Len(tracker.orders[s]) = 1
           /\ IF timeout_due(mech, tracker, o, now)
              THEN /\ tracker' = r.tracker
                   /\ exOrders' = r.w.exOrders
                   /\ exPos' = r.w.exPos
                   /\ next_id' = r.w.next_id
                   /\ rl_used' = r.w.rl_used
                   /\ api_log' = r.w.api_log
                   /\ attempt' = MkAttempt(s, IF interrupt = "none" THEN "timeout_handled"
                                              ELSE "timeout_interrupted", o.qty, FALSE, None)
              ELSE /\ api_log' = {}
                   /\ attempt' = MkAttempt(s, "timeout_skipped", o.qty, FALSE, None)
                   /\ UNCHANGED <<tracker, exOrders, exPos, next_id, rl_used>>
           /\ UNCHANGED <<now, pc, startup_mode, last_sync, resv, trader_variant, cache, adm,
                          sync_result, cd_error, cooldown_answer, hb_pos, guard_call>>

SpecEscalation == InitTimeout /\ [][run_timeout_mechanism]_vars

\* ------------------------------------------------ one smart limit entry
\* One call of _execute_smart_limit_entry on an engine with an empty ledger,
\* each call it makes succeeding or failing either way.
InitSmartEntry ==
    /\ now = Epoch
    /\ pc = "idle"
    /\ startup_mode = FALSE
    /\ last_sync = Epoch
    /\ resv = NoReservations
    /\ rl_used \in 0..RateCeiling
    /\ api_log = {}
    /\ trader_variant \in {"main", "fixed"}
    /\ sync_result = "none"
    /\ attempt = NoAttempt
    /\ cd_error = {}
    /\ cooldown_answer = NoAnswer
    /\ hb_pos = 0
    /\ guard_call = NoGuardCall
    /\ cache = NoCachedTrader
    /\ adm = NoAdmission
    /\ tracker = EmptyLedger
    /\ exOrders = NoExchangeOrders
    /\ exPos = [x \in Sides |-> 0]
    /\ next_id = 1

call_execute_smart_limit_entry ==
    /\ attempt = NoAttempt
    /\ \E s \in Sides, q \in 1..MaxQty, fate \in OrderFates, answers \in BOOLEAN,
          aged \in BOOLEAN, reads \in BOOLEAN, slid \in BOOLEAN, accept_l \in BOOLEAN, accept_c \in BOOLEAN,
          accept_m \in BOOLEAN :
        LET r == execute_smart_limit_entry(MkWorld(exOrders, exPos, next_id, rl_used, {}),
                                           tracker, reads, s, q, fate, answers, aged, slid,
                                           accept_l, accept_c, accept_m, now)
        IN /\ exOrders' = r.w.exOrders
           /\ exPos' = r.w.exPos
           /\ next_id' = r.w.next_id
           /\ rl_used' = r.w.rl_used
           /\ api_log' = r.w.api_log
           /\ attempt' = MkAttempt(s, r.stage, q, TRUE, r.ret)
           /\ UNCHANGED <<now, pc, startup_mode, last_sync, resv, trader_variant, cache, adm,
                          sync_result, cd_error, cooldown_answer, hb_pos, guard_call,
                          tracker>>

SpecSmartEntry == InitSmartEntry /\ [][call_execute_smart_limit_entry]_vars

\* --------------------------------- the heartbeat pass over a restored ledger
\* One pass of _save_state_and_heartbeat over a ledger restored from the
\* saved state that holds, on one side, a position whose entry is confirmed
\* (order 1, filled) and an entry order still pending (order 2), both
\* submitted more than the timeout ago.
InitHeartbeat ==
    /\ now = Epoch + MaxTime
    /\ pc = "heartbeat"
    /\ startup_mode = FALSE
    /\ last_sync = Epoch + MaxTime
    /\ resv = NoReservations
    /\ rl_used \in 0..RateCeiling
    /\ api_log = {}
    /\ trader_variant \in {"main", "fixed"}
    /\ sync_result = "none"
    /\ attempt = NoAttempt
    /\ cd_error = {}
    /\ cooldown_answer = NoAnswer
    /\ hb_pos = 0
    /\ guard_call = NoGuardCall
    /\ cache = NoCachedTrader
    /\ adm = NoAdmission
    /\ \E s \in Sides, q1 \in 1..MaxQty, q2 \in 1..MaxQty, st \in {"NEW", "FILLED", "CANCELED"} :
          /\ tracker = add_order(add_order(EmptyLedger, s, q1, 1, Epoch, FALSE),
                                 s, q2, 2, Epoch, TRUE)
          /\ exOrders = [NoExchangeOrders EXCEPT
                            ![1] = [side |-> s, qty |-> q1, st |-> "FILLED", kind |-> "LIMIT"],
                            ![2] = [side |-> s, qty |-> q2, st |-> st, kind |-> "LIMIT"]]
          /\ exPos = [x \in Sides |-> IF x # s THEN 0
                                       ELSE IF st = "FILLED" THEN q1 + q2 ELSE q1]
          /\ next_id = 3

SpecHeartbeat == InitHeartbeat /\ [][
    \/ save_state_and_heartbeat
    \/ heartbeat_step
    \/ heartbeat_done
    ]_vars

\* ------------------------------------------ the guard queries on their own
\* One guard query of _process_entry_logic as an operation of its own: a
\* behaviour is one evaluation of one query, on the engine as it is after
\* construction, for any outcome of the managers the query consults.
GuardFrame ==
    UNCHANGED <<now, pc, startup_mode, last_sync, tracker, resv, exOrders, exPos,
              next_id, rl_used, api_log, trader_variant, cache, adm, sync_result, attempt,
              cd_error, cooldown_answer, hb_pos>>

call_check_global_directional_risk ==
    /\ guard_call = NoGuardCall
    /\ \E direction \in {"long", "short"}, mgr \in RiskEvals, handler \in HandlerOutcomes :
        /\ guard_call' = [NoGuardCall EXCEPT
                              !.query = "global_risk",
                              !.direction = direction,
                              !.mgr = mgr,
                              !.handler = IF mgr = "error" THEN handler ELSE "",
                              !.answer = check_global_directional_risk(mgr, handler)]
        /\ GuardFrame

call_check_cooldown_and_score ==
    /\ guard_call = NoGuardCall
    /\ \E direction \in {"long", "short"}, score \in 0..MaxScore, pos \in 0..PosScale,
       unified \in CooldownEvals, legacy \in BOOLEAN, emergency \in BOOLEAN,
       dyn \in DynamicThresholds :
        LET r == check_cooldown_and_score(direction, score, pos, unified, legacy,
                                          emergency, dyn)
        IN /\ guard_call' = [NoGuardCall EXCEPT
                                 !.query = "cooldown_score",
                                 !.direction = direction,
                                 !.score = score,
                                 !.pos = pos,
                                 !.unified = unified,
                                 !.legacy = legacy,
                                 !.emergency = emergency,
                                 !.threshold = dyn,
                                 !.raised = r.raised,
                                 !.answer = r.answer]
           /\ GuardFrame

call_check_funds_for_entry ==
    /\ guard_call = NoGuardCall
    /\ \E held \in 0..MaxHeld, price \in Prices, balance \in Balances,
          balance_reads \in BOOLEAN, handler \in HandlerOutcomes :
        /\ guard_call' = [NoGuardCall EXCEPT
                              !.query = "check_funds",
                              !.used = held * price,
                              !.price = price,
                              !.balance = balance,
                              !.raised = ~balance_reads,
                              !.handler = IF balance_reads THEN "" ELSE handler,
                              !.answer = check_funds_for_entry(held, price, balance,
                                                               balance_reads, handler)]
        /\ GuardFrame

call_calculate_entry_quantity ==
    /\ guard_call = NoGuardCall
    /\ \E usdt \in Amounts, balance \in Balances, symbol_used \in Amounts,
          price \in Prices :
        LET r == calculate_entry_quantity(usdt, balance, symbol_used, price)
        IN /\ guard_call' = [NoGuardCall EXCEPT
                                 !.query = "entry_quantity",
                                 !.usdt = usdt,
                                 !.balance = balance,
                                 !.used = symbol_used,
                                 !.price = price,
                                 !.qty = r.qty,
                                 !.notional = r.notional,
                                 !.answer = ~r.none]
           /\ GuardFrame

\* the engine built with the main trader and an empty ledger snapshot
InitGuards == Init /\ trader_variant = "main" /\ tracker = EmptyLedger

SpecGuards == InitGuards /\ [][
    \/ call_check_global_directional_risk
    \/ call_check_cooldown_and_score
    \/ call_check_funds_for_entry
    \/ call_calculate_entry_quantity
    ]_vars

\* ------------------------------------ an entry behind the loss protection
\* One pass of the loop of _process_entry_logic for a side whose ledger holds
\* no order, one order, or two orders (one of them possibly closed), at any
\* entry prices and any current price; the other guards of the pass allow.
LossLedgers ==
    {EmptyLedger}
    \cup {add_order(EmptyLedger, s, q, 1, Epoch, FALSE) : s \in Sides, q \in 1..MaxQty}
    \cup {close_orders(add_order(EmptyLedger, s, 1, 1, Epoch, FALSE), s) : s \in Sides}
    \cup {add_order(add_order(EmptyLedger, s, 1, 1, Epoch, FALSE), s, 1, 2, Epoch, FALSE) :
              s \in Sides}

LedgerIds(L) ==
    UNION {{L.orders[s][i].id : i \in 1..Len(L.orders[s])} : s \in Sides}

InitLoss ==
    /\ now = Epoch + MaxTime
    /\ pc = "idle"
    /\ startup_mode = FALSE
    /\ last_sync = Epoch + MaxTime
    /\ resv = NoReservations
    /\ rl_used = 0
    /\ api_log = {}
    /\ trader_variant = "main"
    /\ sync_result = "none"
    /\ attempt = NoAttempt
    /\ cd_error = {}
    /\ cooldown_answer = NoAnswer
    /\ hb_pos = 0
    /\ guard_call = NoGuardCall
    /\ cache = NoCachedTrader
    /\ adm = NoAdmission
    /\ tracker \in LossLedgers
    /\ exOrders = [id \in 1..MaxId |->
                      IF \E s \in Sides : \E i \in 1..Len(tracker.orders[s]) :
                             tracker.orders[s][i].id = id
                      THEN [side |-> CHOOSE s \in Sides : Len(tracker.orders[s]) > 0,
                            qty |-> 1, st |-> "FILLED", kind |-> "LIMIT"]
                      ELSE NoExchangeOrders[id]]
    /\ exPos = [s \in Sides |-> OpenQty(tracker, s)]
    /\ next_id = 1 + Len(tracker.orders["LONG"]) + Len(tracker.orders["SHORT"])

entry_behind_loss_protection ==
    /\ guard_call = NoGuardCall
    /\ \E side \in Sides, price \in Prices, entry_price \in [LedgerIds(tracker) -> Prices],
          fails \in BOOLEAN, handler \in LossHandlerOutcomes, qty \in 1..MaxQty,
          accept \in BOOLEAN, rec \in RecordOutcomes :
        LET allowed == enhanced_loss_protection_check(tracker, side, price, entry_price,
                                                      fails, handler)
            active_orders == get_active_orders(tracker, side)
            W == MkWorld(exOrders, exPos, next_id, rl_used, {})
            r == process_entry_logic(tracker, tracker, resv, W, side,
                                     IF allowed THEN "none" ELSE "loss", qty, accept, rec, now)
        IN /\ tracker' = r.tracker
           /\ resv' = r.resv
           /\ exOrders' = r.w.exOrders
           /\ exPos' = r.w.exPos
           /\ next_id' = r.w.next_id
           /\ rl_used' = r.w.rl_used
           /\ api_log' = r.w.api_log
           /\ attempt' = r.attempt
           /\ guard_call' = [NoGuardCall EXCEPT
                                 !.query = "loss_protection",
                                 !.direction = side,
                                 !.price = price,
                                 !.raised = fails,
                                 !.handler = IF fails THEN handler ELSE "",
                                 !.pnls = {floating_pnl(side, entry_price[active_orders[i].id],
                                                        price) : i \in 1..Len(active_orders)},
                                 !.answer = allowed]
           /\ UNCHANGED <<now, pc, startup_mode, last_sync, trader_variant, cache, adm,
                          sync_result, cd_error, cooldown_answer, hb_pos>>

SpecLoss == InitLoss /\ [][entry_behind_loss_protection]_vars

\* ------------------------------------------ the caching traders on their own
\* A caching trader of one of the two classes, answering the getter of one
\* type for two keys.  A behaviour is a sequence of getter calls; each call
\* comes some seconds after the one before.
CacheSteps == {10, 1800}

InitCache ==
    /\ now = Epoch
    /\ pc = "idle"
    /\ startup_mode = TRUE
    /\ last_sync = 0
    /\ tracker = EmptyLedger
    /\ resv = NoReservations
    /\ exOrders = NoExchangeOrders
    /\ exPos = [s \in Sides |-> 0]
    /\ next_id = 1
    /\ rl_used = 0
    /\ api_log = {}
    /\ trader_variant = "main"
    /\ sync_result = "none"
    /\ attempt = NoAttempt
    /\ cd_error = {}
    /\ cooldown_answer = NoAnswer
    /\ hb_pos = 0
    /\ guard_call = NoGuardCall
    /\ adm = NoAdmission
    /\ \E variant \in {"ultra", "safe"}, type \in CacheTypes :
          /\ ~(variant = "ultra" /\ type = "order_status")
          /\ cache = [NoCachedTrader EXCEPT !.variant = variant, !.type = type]

CacheFrame ==
    UNCHANGED <<pc, startup_mode, last_sync, tracker, resv, exOrders, exPos,
              next_id, rl_used, api_log, trader_variant, sync_result, attempt,
              cd_error, cooldown_answer, hb_pos, guard_call, adm>>

call_ultra_getter ==
    /\ cache.variant = "ultra"
    /\ \E key \in CacheKeys, d \in CacheSteps, fetch \in FetchOutcomes("ultra", cache.type) :
          LET r == get_ultra_cached_data(cache, key, fetch, now + d)
          IN /\ cache.calls < MaxCalls
             /\ now' = now + d
             /\ cache' = [r.c EXCEPT !.call = MkCall(cache, key, r), !.calls = @ + 1]
             /\ CacheFrame

call_safe_getter ==
    /\ cache.variant = "safe"
    /\ \E key \in CacheKeys, d \in CacheSteps, fetch \in FetchOutcomes("safe", cache.type),
          force_critical \in Criticals(cache.type), ws \in {NoData} \cup (1..MaxData) :
          LET r == get_safe_cached_data(cache, key, fetch, force_critical, ws, now + d)
          IN /\ cache.calls < MaxCalls
             /\ now' = now + d
             /\ cache' = [r.c EXCEPT !.call = MkCall(cache, key, r), !.calls = @ + 1]
             /\ CacheFrame

SpecCache == InitCache /\ [][
    \/ call_ultra_getter
    \/ call_safe_getter
    ]_vars

\* ---------------------------------------------- position reads on their own
\* get_position_amt of a caching trader of one of the three classes, called
\* for two (symbol, side) keys; each call comes some seconds after the one
\* before and the exchange answers it with any body.
InitPosition ==
    /\ now = Epoch
    /\ pc = "idle"
    /\ startup_mode = TRUE
    /\ last_sync = 0
    /\ tracker = EmptyLedger
    /\ resv = NoReservations
    /\ exOrders = NoExchangeOrders
    /\ exPos = [s \in Sides |-> 0]
    /\ next_id = 1
    /\ rl_used = 0
    /\ api_log = {}
    /\ trader_variant = "main"
    /\ sync_result = "none"
    /\ attempt = NoAttempt
    /\ cd_error = {}
    /\ cooldown_answer = NoAnswer
    /\ hb_pos = 0
    /\ guard_call = NoGuardCall
    /\ adm = NoAdmission
    /\ \E variant \in {"ultra", "safe", "emergency"} :
          cache = [NoCachedTrader EXCEPT !.variant = variant, !.type = "position"]

call_get_position_amt ==
    /\ cache.calls < MaxCalls
    /\ \E key \in CacheKeys, d \in {10, 70, 1800}, body \in PositionBodies,
          force_refresh \in BOOLEAN :
          LET r == get_position_amt(cache, key, body, force_refresh, now + d)
              seen == IF r.path \in {"fetched", "fetch_raised", "direct"} THEN body ELSE NoBody
          IN /\ now' = now + d
             /\ cache' = [r.c EXCEPT !.call = [MkCall(cache, key, r) EXCEPT !.body = seen,
                                                                   !.force = force_refresh],
                                     !.calls = @ + 1]
             /\ CacheFrame

SpecPosition == InitPosition /\ [][call_get_position_amt]_vars

\* ------------------------------------- the admission controller on its own
\* The requests of the rate-limited helpers at the admission controller, with
\* the priority and the wait each helper asks with: a request is admitted,
\* denied (the status query does not wait) or left waiting until the window
\* slides or its deadline passes.
RequestOps == {"limit", "cancel", "status", "market"}

RequestPriority(op) ==
    CASE op = "market" -> "CRITICAL" [] op = "status" -> "MEDIUM" [] OTHER -> "HIGH"

WaitTimeout(op) ==
    CASE op = "market" -> MarketWaitTimeout [] op = "cancel" -> CancelWaitTimeout
      [] OTHER -> LimitWaitTimeout

InitQueue ==
    /\ now = Epoch
    /\ pc = "idle"
    /\ startup_mode = TRUE
    /\ last_sync = 0
    /\ tracker = EmptyLedger
    /\ resv = NoReservations
    /\ exOrders = NoExchangeOrders
    /\ exPos = [s \in Sides |-> 0]
    /\ next_id = 1
    /\ rl_used \in 0..RateCeiling
    /\ api_log = {}
    /\ trader_variant = "main"
    /\ sync_result = "none"
    /\ attempt = NoAttempt
    /\ cd_error = {}
    /\ cooldown_answer = NoAnswer
    /\ hb_pos = 0
    /\ guard_call = NoGuardCall
    /\ cache = NoCachedTrader
    /\ adm = NoAdmission

QueueFrame ==
    UNCHANGED <<pc, startup_mode, last_sync, tracker, resv, exOrders, exPos,
              next_id, api_log, trader_variant, sync_result, attempt,
              cd_error, cooldown_answer, hb_pos, guard_call, cache>>

\* can_make_request, and wait_for_request_slot when it is denied
admission_request ==
    /\ adm.seq < MaxTickets
    /\ \E op \in RequestOps :
          IF can_make_request(rl_used)
          THEN /\ rl_used' = record_request(rl_used)
               /\ adm' = [adm EXCEPT !.seq = @ + 1, !.granted = {}, !.last = "admitted"]
          ELSE IF op = "status"
          THEN /\ rl_used' = rl_used
               /\ adm' = [adm EXCEPT !.seq = @ + 1, !.granted = {}, !.last = "denied"]
          ELSE /\ rl_used' = rl_used
               /\ adm' = [adm EXCEPT
                            !.queue = @ \cup {[op |-> op, priority |-> RequestPriority(op),
                                               enq |-> adm.seq + 1,
                                               deadline |-> now + WaitTimeout(op)]},
                            !.seq = @ + 1, !.granted = {}, !.last = "queued"]
    /\ now' = now
    /\ QueueFrame

\* the rolling window slides: capacity is freed and waiters are released
window_slides ==
    /\ rl_used > 0
    /\ \E freed \in 1..rl_used :
          LET r == release_waiters(adm.queue, rl_used - freed)
          IN /\ rl_used' = r.used
             /\ adm' = [adm EXCEPT !.queue = r.queue, !.granted = r.granted, !.last = "slid"]
    /\ now' = now
    /\ QueueFrame

\* time passes: a waiter whose deadline has come gives up
admission_tick ==
    /\ now + QueueTick <= Epoch + MaxWait
    /\ now' = now + QueueTick
    /\ adm' = [adm EXCEPT !.queue = {w \in @ : w.deadline > now + QueueTick},
                          !.granted = {}, !.last = "tick"]
    /\ rl_used' = rl_used
    /\ QueueFrame

SpecQueue == InitQueue /\ [][
    \/ admission_request
    \/ window_slides
    \/ admission_tick
    ]_vars

\* the ledgers _execute_entry can start from in the current state: the
\* ledger as it is, or as the sync before entry leaves it
LedgersBeforeEntry ==
    IF should_sync_before_entry
    THEN {sync_position_from_binance(trader_variant, tracker, kind,
                                     PositionReport(exPos, first, bad)).tracker :
              kind \in SyncKinds, first \in Sides, bad \in 0..3}
    ELSE {tracker}

\* ================================================================== claims
\* the ids of the exchange orders submitted so far for a side
SubmittedFor(side) == {id \in 1..MaxId : exOrders[id].st # "NONE" /\ exOrders[id].side = side}

\* C1: mutual exclusion of directions: in every reachable state the ledger
\* does not hold non-closed orders with quantity > 0 in both LONG and SHORT.
C1_MutualExclusion ==
    ~(OpenQty(tracker, "LONG") > 0 /\ OpenQty(tracker, "SHORT") > 0)

\* C2: when a heartbeat pass completes, no ledger order that was submitted
\* more than the entry timeout ago is still unfilled at the exchange and
\* unresolved in the ledger: every timed-out order has been taken up (filled
\* by escalation, or closed as rejected).
C2_TimedOutResolved ==
    [][(pc \in {"heartbeat", "hb_loop"} /\ pc' = "idle") =>
           \A s \in Sides : \A i \in 1..Len(tracker'.orders[s]) :
               LET o == tracker'.orders[s][i] IN
               ~(/\ o.id \in 1..MaxId
                 /\ exOrders'[o.id].st = "NEW"
                 /\ ~o.closed
                 /\ now' - o.submit_time > PendingTimeout)]_vars

C4_AdmissionAsked ==
    \A e \in api_log : e.called => e.asked

\* C5: record_request is called exactly once for every exchange call a
\* rate-limited helper attempted, with a success flag that is true exactly
\* when the call succeeded, and not at all when the call was not attempted.
C5_RecordedOnce ==
    \A e \in api_log :
        e.via \in {"helper", "bypass"} =>
            IF e.called THEN e.recorded = 1 /\ (e.flag = "True") = e.ok
            ELSE e.recorded = 0

\* C6: with the budget exhausted, a market-escalation request that is denied
\* admission still calls the exchange's market order (through the emergency
\* bypass when the wait times out), while a denied order-status query makes
\* no exchange call and returns a status that is none of the terminal ones.
C6_CriticalBypass ==
    \A e \in api_log :
        /\ (e.op = "market" /\ ~e.can) => (e.called /\ e.via \in {"helper", "bypass"})
        /\ (e.op = "status" /\ ~e.can) =>
               (~e.called /\ e.ret = "UNKNOWN"
                /\ e.ret \notin {"FILLED", "CANCELED", "EXPIRED", "REJECTED"})

\* a market order went through the emergency bypass with the budget exhausted
C6_Witness ==
    /\ ~can_make_request(rl_used)
    /\ \E e \in api_log :
           e.op = "market" /\ e.via = "bypass" /\ ~e.can /\ e.called /\ e.ok

\* C7: get_total_quantity(side) equals the sum of qty over the non-closed
\* orders of that side, in every reachable state.
C7_TotalIsOpenSum ==
    \A s \in Sides : get_total_quantity(tracker, s) = OpenQty(tracker, s)

\* C8: after a sync that returned from a successful position fetch, the
\* ledger holds exactly the exchange-reported position: per side the total
\* equals the reported amount, and only orders written by the sync remain.
C8_LedgerIsReport ==
    [][sync_result' = "ok" =>
           \A s \in Sides :
               /\ get_total_quantity(tracker', s) = exPos[s]
               /\ \A i \in 1..Len(tracker'.orders[s]) :
                      tracker'.orders[s][i].id = RestoredId(s)]_vars

\* C9: a sync whose fetch fails, or whose response is an error object or
\* holds a malformed entry, leaves the ledger exactly as it was.
C9_FailedSyncKeepsLedger ==
    [][sync_result' \in {"fetch_fail", "error_obj", "malformed"} =>
           tracker' = tracker]_vars

\* C10: fail closed: when the loss-cooldown evaluation raises,
\* is_in_loss_cooldown reports in-cooldown, and no order is submitted for
\* that side in the evaluation cycle in which the check raised: the raising
\* step submits nothing and ends the cycle, nothing is submitted for the side
\* until the next cycle starts, and before its own entry step (in the sync,
\* and for SHORT in the LONG step) nothing is submitted for the side either.
C10_FailClosed ==
    [][/\ cooldown_answer'.eval = "error" => cooldown_answer'.answer
       /\ \A s \in cd_error' : SubmittedFor(s)' = SubmittedFor(s)
       /\ cd_error' \notin {cd_error, {}} => pc' = "idle"
       /\ pc = "sync" => \A s \in Sides : SubmittedFor(s)' = SubmittedFor(s)
       /\ pc = "entry_long" => SubmittedFor("SHORT")' = SubmittedFor("SHORT")]_vars

\* the cooldown check raised in the latest cycle, and is_in_loss_cooldown was
\* asked while the manager raises
C10_Witness ==
    /\ cd_error # {}
    /\ cooldown_answer.eval = "error"
    /\ cooldown_answer.answer

\* C11: fail open: when the evaluation of the global directional risk check
\* raises, or the global risk manager is unavailable,
\* _check_global_directional_risk returns true, whatever the shared exception
\* handler decides.
C11_FailOpen ==
    (guard_call.query = "global_risk" /\ guard_call.mgr \in {"unavailable", "error"})
        => guard_call.answer = TRUE

\* C12: while a loss cooldown is active for the side, _check_cooldown_and_score
\* refuses the entry unless an override is asserted, and an override is
\* asserted only when the score is at or above the direction's floor (4.2 for
\* a short, 3.8 for a long) or the price sits in the favourable zone (lowest
\* 30% of the range for a long, highest 30% for a short); a SHORT signal at
\* score 2.0 outside the zone is refused, and at score 4.6 it is allowed (the
\* legacy guard allowing and the emergency protection off).
C12_CooldownOverride ==
    LET g == guard_call
        in_zone == \/ g.direction = "long" /\ 10 * g.pos < 3 * PosScale
                   \/ g.direction = "short" /\ 10 * g.pos > 7 * PosScale
        floor == IF g.direction = "short" THEN 42 ELSE 38
    IN (g.query = "cooldown_score" /\ g.unified = "active") =>
          /\ g.answer => (g.score >= floor \/ in_zone)
          /\ (g.direction = "short" /\ g.score = 20 /\ ~in_zone) => ~g.answer
          /\ (g.direction = "short" /\ g.score = 46 /\ g.legacy /\ ~g.emergency)
                 => g.answer

\* a SHORT signal at score 4.6 was allowed during an active loss cooldown
C12_Witness ==
    /\ guard_call.query = "cooldown_score"
    /\ guard_call.unified = "active"
    /\ guard_call.direction = "short"
    /\ guard_call.score = 46
    /\ ~position_advantage("short", guard_call.pos)
    /\ guard_call.answer

C14_FailedEscalationRejected ==
    [][\A s \in Sides : \A i \in 1..Len(tracker.orders[s]) :
          (/\ pc = "hb_loop"
           /\ Len(tracker'.orders[s]) = Len(tracker.orders[s])
           /\ tracker.orders[s][i].qty > 0
           /\ tracker.orders[s][i].entry_pending
           /\ ~tracker.orders[s][i].timeout_processing
           /\ tracker'.orders[s][i].timeout_processing
           /\ tracker'.orders[s][i].entry_pending)
          => /\ tracker'.orders[s][i].exit_status = "REJECTED"
             /\ tracker'.orders[s][i].exit_status # "CONVERTED_TO_MARKET"
             /\ resv'[s] # "reserved"]_vars

\* C15: when a timed-out pending entry is escalated and the market order
\* succeeds, the order carries the market order's id, is no longer pending,
\* and remains an open (non-closed) order of the ledger that counts toward the
\* side's quantity.
C15_EscalatedStaysOpen ==
    \A s \in Sides : \A i \in 1..Len(tracker.orders[s]) :
        LET o == tracker.orders[s][i]
        IN (o.timeout_processing /\ ~o.entry_pending) =>
              /\ exOrders[o.id].kind = "MARKET"
              /\ exOrders[o.id].st = "FILLED"
              /\ ~o.closed
              /\ OpenQty(tracker, s) >= o.qty

\* C16: when a pending entry order's timeout expires, a cancel of the limit
\* order is attempted and then a market order for the order's quantity is
\* submitted, also when the cancel fails or is denied admission, and also
\* while the ledger still counts the pending order in the side's quantity.
C16_EscalationSubmitted ==
    [][\A s \in Sides : \A i \in 1..Len(tracker.orders[s]) :
          (/\ pc = "hb_loop"
           /\ Len(tracker'.orders[s]) = Len(tracker.orders[s])
           /\ tracker.orders[s][i].qty > 0
           /\ tracker.orders[s][i].entry_pending
           /\ ~tracker.orders[s][i].timeout_processing
           /\ tracker'.orders[s][i].timeout_processing)
          => /\ \E e \in api_log' : e.op = "cancel" /\ e.asked
             /\ \E e \in api_log' : e.op = "market" /\ e.called]_vars

\* C17: a failed submission leaves no ledger entry and releases its
\* reservation: when _place_entry_order returns no order id, _execute_entry
\* adds no order to the ledger (the ledger is as the attempt found it, after
\* the sync before entry when one was due), the side's quantity is unchanged,
\* and cancel_entry_reservation has released the side's reservation.
C17_FailedSubmissionReleases ==
    [][(attempt'.placed /\ attempt'.ret = None) =>
          /\ tracker' \in LedgersBeforeEntry
          /\ ~should_sync_before_entry =>
                 get_total_quantity(tracker', attempt'.side)
                     = get_total_quantity(tracker, attempt'.side)
          /\ resv'[attempt'.side] # "reserved"
          /\ resv[attempt'.side] = "none" => resv'[attempt'.side] = "none"]_vars

\* the exchange rejected a submission made under a reservation taken for it
C17_Witness ==
    /\ attempt.placed
    /\ attempt.ret = None
    /\ attempt.stage = "rejected"
    /\ \E e \in api_log : e.op = "limit" /\ e.called /\ ~e.ok
    /\ resv[attempt.side] = "none"

C19_ReservationResolved ==
    [][\A s \in Sides :
          (attempt'.side = s /\ resv[s] = "none") => resv'[s] # "reserved"]_vars

\* an unresolved entry order of a side: a limit order resting at the exchange
\* that no timeout handling has taken up
InFlight(s) ==
    {id \in 1..MaxId :
        /\ exOrders[id].st = "NEW"
        /\ exOrders[id].kind = "LIMIT"
        /\ exOrders[id].side = s
        /\ ~\E i \in 1..Len(tracker.orders[s]) :
               tracker.orders[s][i].id = id /\ tracker.orders[s][i].timeout_processing}

\* C20: no two entry submissions for the same side are in flight at the same
\* time: while an entry order of the side is submitted and unresolved (not
\* filled, rejected, cancelled or escalated), _execute_entry submits no further
\* entry order for that side.
C20_SingleInFlight ==
    [][\A s \in Sides :
          (InFlight(s) # {} /\ attempt'.side = s) => SubmittedFor(s)' = SubmittedFor(s)]_vars

\* the step of the cycle that attempts an entry for a side
EntryPc(s) == IF s = "LONG" THEN "entry_long" ELSE "entry_short"

\* C21: when the ledger holds a position on one side, an entry attempt for
\* the opposite side is refused before any exchange call is made for it: the
\* attempt ends refused without reaching the submission, no exchange method
\* is called, no order appears at the exchange, no position sync runs, and
\* the ledger and the admission window are as they were.
C21_OppositeRefusedBeforeCall ==
    [][\A s \in Sides :
          (pc = EntryPc(s) /\ get_total_quantity(tracker, Opposite(s)) > 0) =>
              /\ attempt'.side = s
              /\ attempt'.stage \in {"vetoed", "conflict", "opposite"}
              /\ ~attempt'.placed
              /\ attempt'.ret = None
              /\ api_log' = {}
              /\ exOrders' = exOrders
              /\ next_id' = next_id
              /\ rl_used' = rl_used
              /\ sync_result' = "none"
              /\ tracker' = tracker]_vars

\* a LONG attempt was refused for the open SHORT position the ledger holds
C21_Witness ==
    /\ attempt.side = "LONG"
    /\ attempt.stage = "conflict"
    /\ OpenQty(tracker, "SHORT") > 0
    /\ get_total_quantity(tracker, "SHORT") > 0
    /\ api_log = {}

\* C22: position sizing respects the funds limits: the funds check refuses
\* the entry when the notional in use is at or above
\* MAX_TOTAL_POSITION_PERCENT of the total balance, and every quantity
\* _calculate_entry_quantity lets through has a notional of at most
\* MAX_SINGLE_TRADE_RATIO of the balance and, together with the symbol's
\* notional, of at most MAX_SYMBOL_RATIO of the balance, also when the
\* quantity was recomputed from MIN_NOTIONAL.
C22_SizingWithinLimits ==
    LET g == guard_call
    IN /\ (g.query = "check_funds" /\ ~g.raised /\ 100 * g.used >= 50 * g.balance)
              => ~g.answer
       /\ (g.query = "entry_quantity" /\ g.answer /\ g.qty > 0) =>
              /\ 100 * g.notional <= 10 * g.balance
              /\ 100 * (g.used + g.notional) <= 15 * g.balance

\* C23: when admission is denied and the wait for a slot times out, the
\* limit-order helper returns no order id after a wait of at most 5 seconds
\* and the cancel helper returns false after a wait of at most 3 seconds;
\* the helper returns a value (it does not raise), makes no exchange call,
\* records no request, and leaves the exchange and the admission window as
\* they were.
C23_DeniedFallsBack ==
    [][\A e \in api_log' :
          (e.op \in {"limit", "cancel"} /\ e.via = "helper" /\ e.slot = "timeout") =>
              /\ ~e.can /\ ~e.called /\ e.recorded = 0
              /\ e.op = "limit" => (e.ret = "None" /\ e.timeout = LimitWaitTimeout)
              /\ e.op = "cancel" => (e.ret = "False" /\ e.timeout = CancelWaitTimeout)
              /\ exOrders' = exOrders /\ exPos' = exPos /\ next_id' = next_id
              /\ rl_used' = rl_used]_vars

\* a denied limit order whose wait timed out returned no order id while the
\* exchange would have taken the order
C23_Witness ==
    /\ ~can_make_request(rl_used)
    /\ next_id <= MaxId
    /\ \E e \in api_log :
           e.op = "limit" /\ e.slot = "timeout" /\ ~e.called /\ e.ret = "None"
           /\ e.timeout = LimitWaitTimeout

\* C24: a vetoed entry never becomes a hard failure of the evaluation cycle:
\* when the entry step of one direction ends without an order (a veto, a
\* refusal, or a guard check that fails), the cycle goes on: after the LONG
\* step the SHORT direction is evaluated, and after the SHORT step the state
\* save and the timeout handling run.
C24_VetoNotHardFailure ==
    [][\A s \in Sides :
          (pc = EntryPc(s) /\ attempt'.side = s /\ attempt'.ret = None) =>
              pc' = IF s = "LONG" THEN "entry_short" ELSE "heartbeat"]_vars

\* C25: for the read operations of the caching traders: when the call is
\* denied by the interval limiter or the fetch raises, the getter returns the
\* last cached value of the key if there is one, the cache entries and the
\* last-call time stay as they were, and the getter does not raise.
C25_StaleCacheFallback ==
    [][cache'.call.path \in {"denied", "fetch_raised"} =>
          /\ cache.entries[cache'.call.key].has =>
                 cache'.call.ret = cache.entries[cache'.call.key].data
          /\ cache'.entries = cache.entries
          /\ cache'.last_api_call = cache.last_api_call
          /\ ~cache'.call.raised]_vars

\* a stale entry was returned because the interval limiter denied the fetch
C25_Witness ==
    /\ cache.call.path = "denied"
    /\ cache.call.had
    /\ cache.call.ret = cache.call.old
    /\ now - cache.entries[cache.call.key].time >= cache_timeout(cache.variant, cache.type)

\* C26: an admission request above the budget of the rolling window is not
\* admitted; and when the window slides, a waiter that is granted a slot comes
\* before every waiter still waiting within its deadline: none of those has a
\* higher priority (CRITICAL > HIGH > MEDIUM > LOW), and none of equal
\* priority was enqueued earlier.
C26_PriorityThenFifo ==
    [][/\ adm'.last = "admitted" => can_make_request(rl_used)
       /\ \A g \in adm'.granted : \A w \in adm'.queue :
              /\ g \in adm.queue
              /\ Rank(w.priority) <= Rank(g.priority)
              /\ Rank(w.priority) = Rank(g.priority) => g.enq < w.enq]_vars

\* a CRITICAL waiter was granted the freed slot ahead of a HIGH waiter that
\* was enqueued before it and is still waiting
C26_Witness ==
    \E g \in adm.granted : \E w \in adm.queue :
        /\ g.priority = "CRITICAL" /\ w.priority = "HIGH"
        /\ w.enq < g.enq
        /\ w.deadline > now

\* C27: cancel_order reports its outcome as a boolean, so that
\* _cancel_order_with_rate_limit returns true exactly when an admitted cancel
\* succeeded at the exchange, returns false otherwise, and records that
\* outcome with the admission controller.
C27_CancelReportsOutcome ==
    \A e \in api_log :
        (e.op = "cancel" /\ e.via = "helper") =>
            /\ e.ret \in {"True", "False"}
            /\ (e.ret = "True") = (e.called /\ e.ok)
            /\ e.called => e.flag = BoolStr(e.ok)

\* C28: the timeout handling of the heartbeat pass acts only on an entry
\* order that is still pending and was submitted more than the timeout ago:
\* an order whose entry is confirmed (entry_pending false), or that is not
\* yet past the timeout, is neither cancelled at the exchange nor marked
\* closed by the pass, also when another order is pending at the same time.
C28_OnlyPendingTimedOut ==
    [][(pc = "hb_loop" /\ hb_pos <= HbCount) =>
          LET o == tracker.orders[HbSide(hb_pos)][HbIndex(hb_pos)]
              o2 == tracker'.orders[HbSide(hb_pos)][HbIndex(hb_pos)]
          IN (~o.closed /\ (~o.entry_pending \/ now - o.submit_time <= HeartbeatTimeout)) =>
                 /\ ~o2.closed
                 /\ \A e \in api_log' : e.op # "cancel"]_vars

\* C29: escalation tolerates a limit order that has already filled: the
\* quantity one entry attempt opens at the exchange never exceeds the quantity
\* it asked for, and when its limit order has filled no market order is
\* filled for it as well.
C29_NoDoubleOpen ==
    \A s \in Sides : \A i \in 1..Len(tracker.orders[s]) :
        LET o == tracker.orders[s][i]
            filled == {id \in 1..MaxId : exOrders[id].side = s /\ exOrders[id].st = "FILLED"}
        IN /\ exPos[s] <= o.qty
           /\ (\E id \in filled : exOrders[id].kind = "LIMIT") =>
                  ~(\E id \in filled : exOrders[id].kind = "MARKET")

\* C30: no two entry orders of equal quantity for the same side are submitted
\* to the exchange within 30 seconds of each other, also when a position sync
\* rebuilds the ledger between the two attempts.  Every order at the exchange
\* was submitted at Epoch or later, so within the first 30 seconds an entry
\* attempt submits no order of a quantity that an order of its side at the
\* exchange already has.
C30_NoDuplicateWithinWindow ==
    [][\A s \in Sides :
          (attempt'.side = s /\ attempt'.ret # None /\ now - Epoch <= DuplicateWindow) =>
              \A id \in SubmittedFor(s) : exOrders[id].qty # attempt'.qty]_vars


\* C31: _execute_smart_limit_entry returns an order id only when the position
\* was opened: the id it returns is that of an order the exchange holds as
\* FILLED (the limit order reported filled, or an accepted market order); when
\* the limit order ended CANCELED, EXPIRED or REJECTED, or was cancelled after
\* the last check, and the market order failed, it returns no id.
C31_IdOnlyWhenOpened ==
    attempt.ret # None => exOrders[attempt.ret].st = "FILLED"


\* C32: a position read that fails at the exchange (the endpoint answers with
\* an empty body, an unparsable body or an error object) leaves the cached
\* position of the key as it was, so that later reads within the cache
\* lifetime do not report quantity 0 because of the failure.
C32_FailedReadKeepsCache ==
    [][cache'.call.body \in {EmptyBody, UnparsableBody, ErrorBody, RateLimitBody} =>
          cache'.entries[cache'.call.key] = cache.entries[cache'.call.key]]_vars


\* C33: at most one market escalation is attempted for one order: a run of
\* either timeout mechanism issues at most one cancel and one market order for
\* it, and once a run has started handling the order (a handling, complete or
\* interrupted by an exception, is recorded in attempt; the order is marked
\* timeout_processing) no run of either mechanism issues a cancel or a market
\* order for it again.
C33_OneEscalationPerOrder ==
    [][\A s \in Sides : Len(tracker.orders[s]) = 1 =>
          /\ Cardinality({e \in api_log' : e.op = "cancel"}) <= 1
          /\ Cardinality({e \in api_log' : e.op = "market"}) <= 1
          /\ (attempt.stage # "none" \/ tracker.orders[s][1].timeout_processing) =>
                 ~(\E e \in api_log' : e.op \in {"cancel", "market"})]_vars

\* a run of a timeout mechanism has just skipped an order whose earlier
\* handling was interrupted after its market order was filled
C33_Witness ==
    /\ attempt.stage = "timeout_skipped"
    /\ \E s \in Sides :
          /\ Len(tracker.orders[s]) = 1
          /\ tracker.orders[s][1].timeout_processing
          /\ ~tracker.orders[s][1].closed
          /\ \E id \in 1..MaxId : exOrders[id].kind = "MARKET"


\* C34: staleness of the cached reads of the ultra-conservative trader is
\* bounded: a cached value returned for a key (a cache hit, or the old value
\* returned when the limiter denies the fetch) is never older than the cache
\* timeout of its type plus the type's minimum call interval, whatever reads
\* of other keys of the type come in between.
C34_BoundedStaleness ==
    [][(/\ cache.variant = "ultra"
        /\ cache'.call.path \in {"hit", "denied"}
        /\ cache'.call.had) =>
          now' - cache.entries[cache'.call.key].time
              <= cache_timeout("ultra", cache.type) + min_intervals("ultra", cache.type)]_vars


\* C35: minimum spacing of exchange reads in the ultra-conservative trader:
\* when a read invoked the fetch function (which returned or raised), the
\* next read that invokes the fetch function of the type comes no sooner than
\* the type's minimum interval.
C35_MinimumSpacing ==
    [][(/\ cache.variant = "ultra"
        /\ cache.call.path \in {"fetched", "fetch_raised"}
        /\ cache'.call.path \in {"fetched", "fetch_raised"}) =>
          now' - now >= min_intervals("ultra", cache.type)]_vars


\* C36: in the safe-conservative trader a get_position_amt call with
\* force_refresh false is subject to the interval limiter and to the position
\* cache lifetime: it fetches from the exchange only when the minimum interval
\* (60 s) has passed since the last position call and the key's entry, if
\* there is one, is at least as old as the position cache timeout (300 s).
C36_OnlyForcedReadsBypass ==
    [][(/\ cache.variant = "safe"
        /\ cache'.call.path \in {"fetched", "fetch_raised"}
        /\ ~cache'.call.force) =>
          /\ now' - cache.last_api_call >= min_intervals("safe", "position")
          /\ cache'.call.had =>
                 now' - cache.entries[cache'.call.key].time
                     >= cache_timeout("safe", "position")]_vars


C38_MinimumScore ==
    LET g == guard_call
        floor == IF g.direction = "short" THEN ShortMinThreshold ELSE LongMinThreshold
    IN (g.query = "cooldown_score" /\ g.answer) =>
          (g.score >= floor /\ g.score >= g.threshold)


\* C39: position sync is throttled: sync_position_from_binance is invoked at
\* most once in any 30-second window.  The per-cycle sync is invoked only when
\* at least 30 seconds have passed since the time stamped at the last
\* invocation, every invocation stamps its time, also when the sync ends in an
\* error, nothing else moves the stamp, and the sync before entry, which does
\* not stamp, is never due in a cycle (it would need a stamp older than 1800
\* seconds right after the per-cycle sync).
C39_SyncThrottled ==
    [][/\ (pc = "sync" /\ sync_result' # "none") =>
              (now - last_sync >= SyncInterval /\ last_sync' = now)
       /\ last_sync' # last_sync => (pc = "sync" /\ sync_result' # "none")
       /\ pc \in {"entry_long", "entry_short"} => ~should_sync_before_entry]_vars

\* a sync that ended in an error stamped its time, in a cycle that comes more
\* than 30 seconds after the engine's first
C39_Witness ==
    /\ pc = "entry_long"
    /\ sync_result \in {"fetch_fail", "error_obj", "malformed"}
    /\ last_sync = now
    /\ now - Epoch > SyncInterval


\* C40: startup mode: while startup mode is on, run_kline_logic performs no
\* sync, no entry evaluation, no order submission and no state save (no step
\* of the cycle is taken and the ledger, the sync stamp and the exchange's
\* orders stay as they are); startup mode stays on during the first 120
\* seconds unless disable_startup_mode is called, which leaves the engine
\* idle; and once it is off it is never switched on again.
C40_StartupMode ==
    [][/\ startup_mode =>
              /\ pc = "idle"
              /\ startup_mode' =>
                     /\ pc' = "idle"
                     /\ UNCHANGED <<tracker, last_sync, exOrders, exPos, next_id, resv>>
                     /\ api_log' = {}
                     /\ attempt' = NoAttempt
                     /\ sync_result' = "none"
              /\ (~startup_mode' /\ now - Epoch <= StartupSeconds) =>
                     (pc' = "idle" /\ UNCHANGED <<tracker, last_sync, exOrders, next_id>>)
       /\ ~startup_mode => ~startup_mode']_vars

\* run_kline_logic has switched startup mode off by the timer and gone on to
\* the cycle
C40_Witness ==
    /\ ~startup_mode
    /\ now - Epoch > StartupSeconds
    /\ pc = "entry_long"
    /\ last_sync = now

====
